---- MODULE Spec2Model ----
(***************************************************************************)
(* The chess service (chess-service/server.js) and the UCI front end of    *)
(* the engine (engine main) as one state machine.                          *)
(*                                                                         *)
(* One step of the model is one JavaScript macrotask or one promise        *)
(* continuation of the service, or one step of a child process.  A line a  *)
(* child prints is handed to rl.on('line') in the step that prints it; a   *)
(* slow pipe is the same as a slow engine.  Strings are records of their   *)
(* tokens; -1 stands for a null number, "null" for a null string and 0 for *)
(* an option that is absent or not a positive number.  A number n that a   *)
(* request or a command carries is written in two limbs, n = hi * 2^31 +   *)
(* lo with lo <= IntMax: hi is 0 exactly when n fits a C++ int.            *)
(***************************************************************************)
EXTENDS Integers, Sequences, FiniteSets, TLC

\* ----------------------------------------------------------------- bounds
MaxReq == 2          \* HTTP requests that arrive in one run
MaxInfo == 1         \* depth iterations a search completes before bestmove
MaxPv == 2           \* multipv indices the secondary engine reports
MaxFaults == 1       \* child process failures (exit, 'error' event) in one run
MaxPly == 2          \* perft: the depth
MaxCmds == 2         \* the commands the engine by itself is sent
MaxSearchDepth == 2  \* go: the depth limit of the search
MaxGoes == 2         \* go commands on the root position
MaxTicks == 2        \* the times the clock advances
MaxWaits == 3        \* the calls of waitFor on a client taken by itself
MaxRepPly == 13      \* the moves made before negamax is entered
MaxBand == 8         \* the scores taken on each side of a threshold of the table

\* ------------------------------------------------------ program constants
DefaultHashMb == 64
BOOK_MAX_PLIES == 12
DefaultMaxDepth == 20
IntMax == 2147483647

\* enum Color
WHITE == 0
BLACK == 1

Clients == {"engine", "stockfish"}
Reqs == 1..MaxReq

\* ------------------------------------------------------------- positions
\* The positions a request can name.  For each one the table gives what
\* gen_legal and in_check compute on it: the legal moves in generation
\* order, whether the side to move is in check, and whether some legal move
\* is a capture or a promotion.
Boards ==
  [ startpos    |-> [legal |-> <<"e2e4", "d2d4">>,         inCheck |-> FALSE, capture |-> FALSE],
    after_e2e4  |-> [legal |-> <<"e7e5", "c7c6">>,         inCheck |-> FALSE, capture |-> FALSE],
    mate        |-> [legal |-> << >>,                      inCheck |-> TRUE,  capture |-> FALSE],
    stalemate   |-> [legal |-> << >>,                      inCheck |-> FALSE, capture |-> FALSE] ]

\* set_fen on the FEN texts the requests carry
\*   startfen  rnbqkbnr/pppppppp/8/8/8/8/PPPPPPPP/RNBQKBNR w KQkq - 0 1
\*   matefen   7k/6Q1/5K2/8/8/8/8/8 b - - 0 1
\*   stalefen  7k/8/5KQ1/8/8/8/8/8 b - - 0 1
set_fen(fen) ==
  CASE fen = "startfen" -> "startpos"
    [] fen = "matefen"  -> "mate"
    [] fen = "stalefen" -> "stalemate"

gen_legal(b) == Boards[b].legal

in_check(b) == Boards[b].inCheck

SeqToSet(s) == {s[i] : i \in 1..Len(s)}

\* apply_uci_move: the move is made only when it is in the legal list
apply_uci_move(b, uci) ==
  IF uci \in SeqToSet(gen_legal(b))
  THEN [ok |-> TRUE,  board |-> IF b = "startpos" /\ uci = "e2e4" THEN "after_e2e4" ELSE b]
  ELSE [ok |-> FALSE, board |-> b]

RECURSIVE ReplayMoves(_, _, _)
ReplayMoves(b, hist, moves) ==
  IF moves = << >> THEN [board |-> b, move_history |-> hist]
  ELSE LET a == apply_uci_move(b, Head(moves))
       IN ReplayMoves(a.board, IF a.ok THEN Append(hist, Head(moves)) ELSE hist, Tail(moves))

\* uci_position on a command the service can write
uci_position(cmd) ==
  IF cmd.startpos
  THEN ReplayMoves("startpos", << >>, cmd.moves)
  ELSE ReplayMoves(set_fen(cmd.fen), << >>, << >>)

\* opening_book_table, the two keys the positions above can reach
opening_book_table(key) ==
  CASE key = << >>        -> <<"e2e4", "d2d4">>
    [] key = <<"e2e4">>   -> <<"c7c6", "e7e5", "c7c5">>
    [] OTHER              -> << >>

\* opening_book_pick: the moves the weighted draw can return (empty: nullopt)
opening_book_pick(hist, legal_uci) ==
  SeqToSet(opening_book_table(hist)) \cap SeqToSet(legal_uci)

has_critical_tactics(b) == in_check(b) \/ Boards[b].capture

\* the first two characters of a move text: its origin square
FromSquare(uci) ==
  CASE uci \in {"e2e4"} -> "e2" [] uci \in {"d2d4"} -> "d2" [] uci \in {"g1f3"} -> "g1"
    [] uci \in {"e7e5"} -> "e7" [] uci \in {"c7c6", "c7c5"} -> "c7" [] OTHER -> "??"

is_early_queen_move_uci(uci, ply) ==
  ply <= 6 /\ FromSquare(uci) \in {"d1", "d8"}

\* move_keeps_king_safe on a move of the legal list: gen_legal kept the move
\* because the mover's king is not attacked after it
move_keeps_king_safe(b, uci) == uci \in SeqToSet(gen_legal(b))

\* ------------------------------------------------------------------ lines
\* A line a child process prints.  by is the request whose command made the
\* process print it.
Line(kind, by) ==
  [kind |-> kind, move |-> "null", depth |-> -1, scoreType |-> "none",
   scoreValue |-> 0, multipv |-> 0, by |-> by]

NoLine == Line("none", 0)

ReadyokLine(by) == Line("readyok", by)

BestmoveLine(uci, by) == [Line("bestmove", by) EXCEPT !.move = uci]

\* "info depth D score cp S nodes N nps K"
InfoLine(d, by) ==
  [Line("info", by) EXCEPT !.depth = d, !.scoreType = "cp", !.scoreValue = 10 * d]

\* "info string bookhit move=<uci>"
BookhitLine(uci, by) == [Line("bookhit", by) EXCEPT !.move = uci]

\* "info string fallback_bestmove_used"
FallbackLine(by) == Line("fallback", by)

\* "info depth D multipv K score (cp|mate) S pv <uci>", as stockfish prints
MultipvLine(d, k, st, uci, by) ==
  [Line("info", by) EXCEPT !.depth = d, !.multipv = k, !.scoreType = st,
                           !.scoreValue = 10 * d, !.move = uci]

StartsWithInfo(line) == line.kind \in {"info", "bookhit", "fallback"}

\* ------------------------------------------------------------ the service
Ids == Reqs \cup {101}      \* randomUUID() of request r is r; 101 is a header id
Null == 0

VARIABLES
  requestStates,    \* id -> request whose state object the map holds, or Null
  state,            \* state[r]: the state object request r created
  activeRequestId,
  currentHashMb,
  stockfishReady,
  waiters,          \* waiters[c]: the waiter FIFO of client c
  onLineHandlers,   \* onLineHandlers[c]: requests whose transient observer is attached
  startupError,     \* startupError[c]: the 'error' event of the child was seen
  queue,            \* queue[c]: engineQueue / stockfishQueue
  req,              \* req[r]: the HTTP handler of request r and its locals
  proc,             \* proc[c]: the child process behind client c
  clock,            \* Date.now(), and the times it has advanced
  statusRes,        \* the last answer of GET /api/move/status/:id
  startup           \* initClients: its place

\* The engine by itself, on a board of 64 squares
VARIABLES
  mode,             \* "uci" or "perft": what main was started for
  board,            \* Board board
  frames,           \* perft: the moves made and not yet unmade, with their Undo
  move_history,     \* main: the texts of the moves uci_position applied
  goOut,            \* what the last go printed
  lastOp,           \* the operation last done on the board
  nCmds,            \* the commands read
  TT,               \* the slot of the root position in the transposition table
  search            \* search_bestmove: its place and its locals

\* Parts of the program by themselves
VARIABLES
  client,           \* one createUciClient(): its closure, and what its callers saw
  node,             \* negamax: the node last entered and what it returned
  budget,           \* main, "go": the GoParams parsed and the budget chosen
  bookTable,        \* opening_book_deterministic.cpp: the table as the build constructed it
  resolved,         \* server.js resolveMoveOptions: the payload last resolved and its options
  ttScore           \* a score on its way through the transposition table

\* the variables no handler of a POST and no event of a child changes
timeVars == <<clock, statusRes, startup>>

serviceVars == <<requestStates, state, activeRequestId, currentHashMb, stockfishReady,
                 waiters, onLineHandlers, startupError, queue, req, proc, timeVars>>

boardVars == <<mode, board, frames, move_history, goOut, lastOp, nCmds>>

searchVars == <<TT, search>>

engineVars == <<boardVars, searchVars>>

unitVars == <<client, node, budget, bookTable, resolved, ttScore>>

vars == <<serviceVars, engineVars, unitVars>>

\* no board is there
BoardOff ==
  /\ mode = "service"
  /\ board = Null
  /\ frames = << >>
  /\ move_history = << >>
  /\ goOut = Null
  /\ lastOp = Null
  /\ nCmds = 0

\* no search is there
SearchOff == TT = Null /\ search = Null

\* the service does not run the engine by itself
EngineOff == BoardOff /\ SearchOff

\* no part is run by itself
UnitOff == client = Null /\ node = Null /\ budget = Null /\ bookTable = Null /\ resolved = Null /\ ttScore = Null

NoInfo ==
  [set |-> FALSE, depth |-> -1, scoreType |-> "none", scoreValue |-> 0, pv |-> "", raw |-> NoLine]

\* parseInfoLine: null unless the line starts with "info "
parseInfoLine(line) ==
  IF ~StartsWithInfo(line) THEN NoInfo
  ELSE [set |-> TRUE,
        depth |-> IF line.kind = "info" THEN line.depth ELSE -1,
        scoreType |-> IF line.kind = "info" /\ line.scoreType \in {"cp", "mate"}
                      THEN line.scoreType ELSE "none",
        scoreValue |-> IF line.kind = "info" /\ line.scoreType \in {"cp", "mate"}
                       THEN line.scoreValue ELSE 0,
        pv |-> IF line.kind = "info" /\ line.move # "null" THEN line.move ELSE "",
        raw |-> line]

\* by: the request whose go the line was printed for (not in the code)
NoPv == [set |-> FALSE, multipv |-> 0, scoreCp |-> 0, uci |-> "null", by |-> 0]

\* parseStockfishMultipv: null unless "info ... pv <move>"
parseStockfishMultipv(line) ==
  IF line.kind # "info" \/ line.move = "null" THEN NoPv
  ELSE LET multipv == IF line.multipv = 0 THEN 1 ELSE line.multipv
       IN [set |-> TRUE, multipv |-> multipv,
           scoreCp |-> IF line.scoreType = "cp" THEN line.scoreValue
                       ELSE IF line.scoreType = "mate"
                            THEN (IF line.scoreValue > 0 THEN 100000 - line.scoreValue
                                  ELSE -100000 - line.scoreValue)
                            ELSE 0,
           uci |-> line.move, by |-> line.by]

NoState ==
  [made |-> FALSE, id |-> Null, active |-> FALSE, finishedAt |-> 0, lastInfoAt |-> FALSE,
   lastInfo |-> NoInfo, bestmove |-> "null", error |-> "null", bookhit |-> FALSE]

NoRes ==
  [status |-> 0, code |-> "none", uci |-> "null", terminal |-> FALSE, reason |-> "null",
   depth |-> -1, scoreType |-> "none", bookhit |-> FALSE, timeout |-> FALSE, lines |-> << >>]

NoBody ==
  [hdr |-> Null, fen |-> "", moves_uci |-> [kind |-> "undefined", list |-> << >>],
   movetime_ms |-> 0, movetime_hi |-> 0, depth |-> 0, hash_mb |-> 0, multipv |-> 0, skill |-> ""]

NoReq ==
  [pc |-> "new", endpoint |-> "none", body |-> NoBody, requestId |-> Null,
   sawBookHit |-> FALSE, linesByPv |-> [k \in 1..MaxPv |-> NoPv], at |-> "none",
   best |-> NoLine, e |-> "none", res |-> NoRes, started |-> FALSE, afterExit |-> FALSE]

\* Date.now() is 1 when the server starts to listen
NoClock == [now |-> 1, ticks |-> 0]

\* no status request was answered yet
NoStatus == [status |-> 0, id |-> Null, active |-> FALSE, finishedAt |-> 0, at |-> 0]

NoProc ==
  [status |-> "run", stdin |-> << >>, out |-> << >>, board |-> "startpos",
   move_history |-> << >>, hash |-> DefaultHashMb, multipv |-> 1, goes |-> 0, bests |-> 0]

\* The state once initClients() has returned and the server listens: the
\* primary answered uciok and readyok; the secondary did or did not.
Init ==
  /\ requestStates = [i \in Ids |-> Null]
  /\ state = [r \in Reqs |-> NoState]
  /\ activeRequestId = Null
  /\ currentHashMb = DefaultHashMb
  /\ stockfishReady \in BOOLEAN
  /\ waiters = [c \in Clients |-> << >>]
  /\ onLineHandlers = [c \in Clients |-> {}]
  /\ startupError = [c \in Clients |-> FALSE]
  /\ queue = [c \in Clients |-> [tasks |-> << >>, chain |-> "fulfilled"]]
  /\ req = [r \in Reqs |-> NoReq]
  /\ proc = [c \in Clients |-> NoProc]
  /\ clock = NoClock
  /\ statusRes = NoStatus
  /\ startup = "listening"
  /\ EngineOff
  /\ UnitOff

\* -------------------------------------------------------- child processes
\* A command the service writes to a child's stdin; by is the writing request
Cmd(cmd, by) ==
  [cmd |-> cmd, by |-> by, mode |-> "none", n |-> 0, hi |-> 0, startpos |-> FALSE, fen |-> "", moves |-> << >>]

Min(a, b) == IF a < b THEN a ELSE b
Max(a, b) == IF a > b THEN a ELSE b

\* std::stoi throws std::out_of_range on a number that does not fit an int;
\* nothing catches it and the process terminates
StoiThrows(cmd) == cmd.hi > 0 \/ cmd.n > IntMax

\* struct GoParams with its defaults
GoParams == [depth |-> 0, movetime_ms |-> 0, wtime |-> -1, btime |-> -1, winc |-> 0, binc |-> 0]

\* parse_go on a "go" line the service writes: "go depth N" or "go movetime N"
parse_go(cmd) ==
  [GoParams EXCEPT !.depth = IF cmd.mode = "depth" THEN cmd.n ELSE 0,
                   !.movetime_ms = IF cmd.mode = "movetime" THEN cmd.n ELSE 0]

\* int / int of C++: the quotient is truncated towards zero
IntDiv(a, b) == IF a >= 0 THEN a \div b ELSE -((-a) \div b)

\* choose_movetime_ms(b, p), side is b.side
choose_movetime_ms(side, p) ==
  IF p.movetime_ms > 0 THEN p.movetime_ms
  ELSE LET rem == IF side = WHITE THEN p.wtime ELSE p.btime
           inc == IF side = WHITE THEN p.winc ELSE p.binc
       IN IF rem <= 0 THEN 200
          ELSE Max(30, Min(1200, IntDiv(rem, 28) + IntDiv(inc, 2)))

\* search_bestmove: the possible results [infos, bm].  With no legal move it
\* prints nothing and returns the empty move.  Otherwise it completes n
\* iterations, printing one info line each, and returns a root move: the
\* first legal move if no iteration completed, else the move of the last
\* completed iteration.  A search without time limit (movetime 0) completes
\* every iteration up to maxDepth.
search_bestmove(b, movetime, maxDepth, by) ==
  LET root == gen_legal(b)
      top == Min(MaxInfo, maxDepth)
      mk(n) == [d \in 1..n |-> InfoLine(d, by)]
  IN IF root = << >> THEN {[infos |-> << >>, bm |-> "empty"]}
     ELSE {[infos |-> mk(0), bm |-> root[1]] : x \in IF movetime > 0 THEN {1} ELSE {}}
          \cup {[infos |-> mk(n), bm |-> m] :
                  n \in (IF movetime > 0 THEN 1..top ELSE {top}), m \in SeqToSet(root)}

\* the bestmove line of the go handler for the move bm the search returned
BestmoveOut(legal, bm) ==
  IF legal = << >> THEN "0000"
  ELSE IF bm \in SeqToSet(legal) THEN bm ELSE legal[1]

\* main, "go": the line sequences the engine can print for one go command
GoOutputs(p, cmd) ==
  LET gp == parse_go(cmd)
      movetime == IF gp.depth > 0 THEN 0 ELSE choose_movetime_ms(WHITE, gp)
      maxDepth == IF gp.depth > 0 THEN gp.depth ELSE DefaultMaxDepth
      legal == gen_legal(p.board)
      book == opening_book_pick(p.move_history, legal)
      bookOk(bk) == /\ Len(p.move_history) <= BOOK_MAX_PLIES
                    /\ ~has_critical_tactics(p.board)
                    /\ bk \in SeqToSet(legal)
                    /\ ~is_early_queen_move_uci(bk, Len(p.move_history))
                    /\ move_keeps_king_safe(p.board, bk)
      searched == {s.infos
                     \o (IF s.bm \notin SeqToSet(legal) /\ legal # << >>
                         THEN <<FallbackLine(cmd.by)>> ELSE << >>)
                     \o <<BestmoveLine(BestmoveOut(legal, s.bm), cmd.by)>> :
                   s \in search_bestmove(p.board, movetime, maxDepth, cmd.by)}
  IN {<<BookhitLine(bk, cmd.by), BestmoveLine(bk, cmd.by)>> : bk \in {x \in book : bookOk(x)}}
     \cup (IF book = {} \/ \E x \in book : ~bookOk(x) THEN searched ELSE {})

\* the secondary engine is an external program: any UCI engine.  For a go it
\* prints n rounds of one info line per multipv index, then bestmove.
StockfishOutputs(p, cmd) ==
  LET legal == gen_legal(p.board)
      k == Min(Min(p.multipv, MaxPv), Len(legal))
      round(d) == [i \in 1..k |-> MultipvLine(d, i, "cp", legal[i], cmd.by)]
  IN IF legal = << >>
     THEN {<<[Line("info", cmd.by) EXCEPT !.depth = 0, !.scoreType = "mate"],
             BestmoveLine("(none)", cmd.by)>>}
     ELSE {<<BestmoveLine(legal[1], cmd.by)>>,
           round(1) \o <<BestmoveLine(legal[1], cmd.by)>>}

\* write cmds to the child's stdin; a child that has exited reads nothing
send(p, cmds) == IF p.status = "run" THEN [p EXCEPT !.stdin = @ \o cmds] ELSE p

\* ------------------------------------------------------- request handling
toPositiveInt(v) == IF v > 0 THEN v ELSE 0

SKILL_PRESETS(skill) ==
  CASE skill = "blitz"  -> [movetime_ms |-> 200,  depth |-> 0,  hash_mb |-> 64]
    [] skill = "rapid"  -> [movetime_ms |-> 700,  depth |-> 0,  hash_mb |-> 96]
    [] skill = "strong" -> [movetime_ms |-> 1600, depth |-> 10, hash_mb |-> 192]
    [] OTHER            -> [movetime_ms |-> 0,    depth |-> 0,  hash_mb |-> 0]

Coalesce(a, b) == IF a # 0 THEN a ELSE b

resolveMoveOptions(body) ==
  LET preset == SKILL_PRESETS(body.skill)
  IN [movetime_ms |-> IF body.movetime_hi > 0 THEN body.movetime_ms
                      ELSE Coalesce(toPositiveInt(body.movetime_ms), Coalesce(preset.movetime_ms, 200)),
      movetime_hi |-> body.movetime_hi,
      depth |-> Coalesce(toPositiveInt(body.depth), preset.depth),
      hash_mb |-> Coalesce(toPositiveInt(body.hash_mb), preset.hash_mb)]

\* the moves_uci check is missing
ValidateMoveNoArrayCheck(body) ==
  IF body.fen = "" THEN "MISSING_FEN" ELSE "ok"

\* the checks at the head of POST /api/move, in order
ValidateMove(body) ==
  IF body.fen = "" THEN "MISSING_FEN"
  ELSE IF body.moves_uci.kind = "nonarray" THEN "INVALID_MOVES_UCI"
  ELSE IF resolveMoveOptions(body).movetime_hi = 0 /\ resolveMoveOptions(body).movetime_ms <= 0
       THEN "INVALID_MOVETIME"
  ELSE "ok"

\* the moves_uci check of the hint is missing
ValidateHintNoArrayCheck(ready, body) ==
  IF ~ready THEN "STOCKFISH_UNAVAILABLE"
  ELSE IF body.fen = "" THEN "MISSING_FEN"
  ELSE "ok"

\* the checks at the head of POST /api/hint, in order
ValidateHint(ready, body) ==
  IF ~ready THEN "STOCKFISH_UNAVAILABLE"
  ELSE IF body.fen = "" THEN "MISSING_FEN"
  ELSE IF body.moves_uci.kind = "nonarray" THEN "INVALID_MOVES_UCI"
  ELSE "ok"

buildPositionCommand(body, by) ==
  IF body.moves_uci.kind = "array"
  THEN [Cmd("position", by) EXCEPT !.startpos = TRUE, !.moves = body.moves_uci.list]
  ELSE [Cmd("position", by) EXCEPT !.fen = body.fen]

\* the go line of a move task
GoCommand(opts, by) ==
  IF opts.depth # 0 THEN [Cmd("go", by) EXCEPT !.mode = "depth", !.n = opts.depth]
  ELSE [Cmd("go", by) EXCEPT !.mode = "movetime", !.n = opts.movetime_ms, !.hi = opts.movetime_hi]

terminalReasonFromInfo(lastInfo) ==
  IF lastInfo.set /\ lastInfo.scoreType = "mate" THEN "CHECKMATE" ELSE "NO_LEGAL_MOVES"

serializeBestmove(st) ==
  LET terminal == st.bestmove = "0000"
  IN [NoRes EXCEPT
        !.uci = IF st.bestmove # "null" /\ st.bestmove # "0000" THEN st.bestmove ELSE "null",
        !.terminal = terminal,
        !.reason = IF terminal THEN terminalReasonFromInfo(st.lastInfo) ELSE "null",
        !.depth = st.lastInfo.depth,
        !.scoreType = st.lastInfo.scoreType,
        !.bookhit = st.bookhit]

\* every failure is stored as an engine error
ErrorCodeAlwaysError(e) == "ENGINE_ERROR"

\* the catch block of POST /api/move: the code stored for the error e
ErrorCode(e) == IF e = "engine timeout" THEN "ENGINE_TIMEOUT" ELSE "ENGINE_ERROR"

\* the catch block of POST /api/move: the answer for the error e
MoveErrorResponse(e) ==
  IF e = "engine timeout"
  THEN [NoRes EXCEPT !.status = 200, !.timeout = TRUE]
  ELSE [NoRes EXCEPT !.status = 500, !.code = "ENGINE_ERROR"]

\* the catch block of POST /api/hint
HintErrorResponse(e) ==
  IF e = "engine timeout"
  THEN [NoRes EXCEPT !.status = 200, !.timeout = TRUE]
  ELSE [NoRes EXCEPT !.status = 500, !.code = "HINT_ERROR"]

\* the lines a hint returns: the entries of linesByPv by ascending multipv,
\* the first multipv of them, those whose uci has at least four characters
RECURSIVE HintLinesFrom(_, _)
HintLinesFrom(byPv, k) ==
  IF k > MaxPv THEN << >>
  ELSE (IF byPv[k].set THEN <<byPv[k]>> ELSE << >>) \o HintLinesFrom(byPv, k + 1)

HintLines(byPv, multipv) ==
  LET sorted == HintLinesFrom(byPv, 1)
  IN SubSeq(sorted, 1, Min(multipv, Len(sorted)))

ClientOf(r) == IF req[r].endpoint = "hint" THEN "stockfish" ELSE "engine"

\* every waiter is dropped
cleanupWaitersAll(W, requestId) == << >>

\* cleanupWaitersForRequest
cleanupWaitersForRequest(W, requestId) == SelectSeq(W, LAMBDA w : w.requestId # requestId)

\* engineQueue = task: the link carries the rejection of the task
QueueLinkNoCatch(e) == IF e = "none" THEN "fulfilled" ELSE e

\* engineQueue = task.catch(() => {}): the link the next task is chained to
\* is fulfilled whatever the outcome e of the task
QueueLink(e) == "fulfilled"

\* the task is started in the step that enqueues it, whatever runs already
QueueReadyNoWait(c, r) ==
  \E i \in 1..Len(queue[c].tasks) : queue[c].tasks[i] = r

\* engineQueue.then(() => fn()): the callback of task r runs once the link
\* it was chained to has settled, that is once no earlier task is unsettled
QueueReady(c, r) == queue[c].tasks # << >> /\ Head(queue[c].tasks) = r

\* one queue for both clients: a task starts only when no body runs anywhere
StartableOneQueue(c) ==
  {r \in Reqs : /\ req[r].pc = "queued" /\ ClientOf(r) = c /\ QueueReady(c, r)
                /\ \A r2 \in Reqs : ~(req[r2].started /\ req[r2].pc \in {"await", "resume"})}

Startable(c) == {r \in Reqs : req[r].pc = "queued" /\ ClientOf(r) = c /\ QueueReady(c, r)}

Resuming == {r \in Reqs : req[r].pc = "resume"}

\* no promise continuation is pending: the event loop takes the next event
MacroOK == Resuming = {} /\ \A c \in Clients : Startable(c) = {}

\* lines of one chunk reach rl.on('line') before the continuation of a wait
\* that one of them resolved
BatchOK(c) ==
  /\ \A c2 \in Clients : Startable(c2) = {}
  /\ Resuming # {}
  /\ \A r \in Resuming : ClientOf(r) = c /\ req[r].e = "none"

NextNew(r) == req[r].pc = "new" /\ \A r2 \in Reqs : r2 < r => req[r2].pc # "new"

\* ------------------------------------------------------------ the inputs
Body(fen, kind, list) ==
  [NoBody EXCEPT !.fen = fen, !.moves_uci = [kind |-> kind, list |-> list]]

MoveBodies ==
  { Body("", "undefined", << >>),
    Body("startfen", "nonarray", << >>),
    [Body("startfen", "undefined", << >>) EXCEPT !.movetime_ms = 200],
    [Body("matefen", "undefined", << >>) EXCEPT !.hash_mb = 128],
    [Body("stalefen", "undefined", << >>) EXCEPT !.skill = "strong"],
    [Body("startfen", "array", <<"e2e4">>) EXCEPT !.movetime_ms = 852516352, !.movetime_hi = 1, !.hdr = 101] }
    \* the last body carries movetime_ms 3000000000 = 2^31 + 852516352

HintBodies ==
  { Body("", "undefined", << >>),
    Body("startfen", "nonarray", << >>),
    [Body("startfen", "array", << >>) EXCEPT !.multipv = 2] }

\* ---------------------------------------------------------------- waitFor
\* waitFor(predicate, timeout, requestId) called by request r on client c,
\* from the handler record h and the FIFO W: rejected at once after a
\* startup error, else a waiter is pushed and its timer is set
WaitReq(c, h, pred) ==
  IF startupError[c]
  THEN [h EXCEPT !.pc = "resume", !.at = pred, !.e = "spawn error"]
  ELSE [h EXCEPT !.pc = "await", !.at = pred]

\* the waiter is pushed but no timer is set
WaitFifoNoTimer(c, W, r, pred) ==
  IF startupError[c] THEN W
  ELSE Append(W, [requestId |-> req[r].requestId, pred |-> pred, owner |-> r, timer |-> FALSE])

WaitFifo(c, W, r, pred) ==
  IF startupError[c] THEN W
  ELSE Append(W, [requestId |-> req[r].requestId, pred |-> pred, owner |-> r, timer |-> TRUE])

\* cleanupOldStates on the map rs with the state objects st at the time now:
\* the map without the entries that are not active and finished more than
\* 60 s ago
cleanupOldStatesNothing(rs, st, now) == rs

cleanupOldStates(rs, st, now) ==
  [id \in Ids |->
     IF rs[id] # Null /\ ~st[rs[id]].active /\ st[rs[id]].finishedAt # 0
        /\ now - st[rs[id]].finishedAt > 60000
     THEN Null ELSE rs[id]]

\* --------------------------------------------------------- POST /api/move
PostMove(r, body) ==
  /\ LET requestId == IF body.hdr # Null THEN body.hdr ELSE r
         v == ValidateMove(body)
         h == [req[r] EXCEPT !.endpoint = "move", !.body = body, !.requestId = requestId,
                             !.afterExit = proc["engine"].status # "run"]
     IN /\ MacroOK
        /\ NextNew(r)
        /\ IF v # "ok"
           THEN /\ req' = [req EXCEPT ![r] = [h EXCEPT !.pc = "done",
                                                !.res = [NoRes EXCEPT !.status = 400, !.code = v]]]
                /\ UNCHANGED <<requestStates, state, queue>>
           ELSE /\ state' = [state EXCEPT ![r] = [NoState EXCEPT !.made = TRUE, !.id = requestId,
                                                                 !.active = TRUE]]
                /\ requestStates' = cleanupOldStates([requestStates EXCEPT ![requestId] = r],
                                                     state', clock.now)
                /\ queue' = [queue EXCEPT !["engine"].tasks = Append(@, r)]
                /\ req' = [req EXCEPT ![r] = [h EXCEPT !.pc = "queued"]]
        /\ UNCHANGED <<activeRequestId, currentHashMb, stockfishReady, waiters, onLineHandlers,
                       startupError, proc>>
  /\ UNCHANGED <<timeVars, engineVars, unitVars>>

\* --------------------------------------------------------- POST /api/hint
PostHint(r, body) ==
  /\ LET v == ValidateHint(stockfishReady, body)
         h == [req[r] EXCEPT !.endpoint = "hint", !.body = body, !.requestId = r]
     IN /\ MacroOK
        /\ NextNew(r)
        /\ IF v # "ok"
           THEN /\ req' = [req EXCEPT ![r] = [h EXCEPT !.pc = "done",
                             !.res = [NoRes EXCEPT !.status = IF v = "STOCKFISH_UNAVAILABLE" THEN 503 ELSE 400,
                                                   !.code = v]]]
                /\ UNCHANGED queue
           ELSE /\ queue' = [queue EXCEPT !["stockfish"].tasks = Append(@, r)]
                /\ req' = [req EXCEPT ![r] = [h EXCEPT !.pc = "queued"]]
        /\ UNCHANGED <<requestStates, state, activeRequestId, currentHashMb, stockfishReady,
                       waiters, onLineHandlers, startupError, proc>>
  /\ UNCHANGED <<timeVars, engineVars, unitVars>>

HintMultipv(body) == Min(8, Max(1, Coalesce(toPositiveInt(body.multipv), 3)))

HintMovetime(body) == Min(2000, Max(50, Coalesce(toPositiveInt(body.movetime_ms), 120)))

\* ------------------------------------------------------ the queued tasks
\* the callback of the next task of client c runs, up to its first await
TaskStart(c) ==
  /\ \E r \in Startable(c) :
       LET opts == resolveMoveOptions(req[r].body)
           h == [req[r] EXCEPT !.started = TRUE]
       IN IF queue[c].chain # "fulfilled"
          THEN \* chained to a rejected link: the task rejects and fn never runs
               /\ req' = [req EXCEPT ![r] = [@ EXCEPT !.pc = "resume", !.at = "queue", !.e = queue[c].chain]]
               /\ UNCHANGED <<requestStates, state, activeRequestId, currentHashMb, stockfishReady,
                              waiters, onLineHandlers, startupError, queue, proc>>
          ELSE IF c = "engine"
          THEN /\ activeRequestId' = req[r].requestId
               /\ onLineHandlers' = [onLineHandlers EXCEPT ![c] = @ \cup {r}]
               /\ IF opts.hash_mb # 0 /\ opts.hash_mb # currentHashMb
                  THEN /\ proc' = [proc EXCEPT ![c] = send(@,
                            << [Cmd("setoption", r) EXCEPT !.n = opts.hash_mb], Cmd("isready", r) >>)]
                       /\ req' = [req EXCEPT ![r] = WaitReq(c, h, "readyok")]
                       /\ waiters' = [waiters EXCEPT ![c] = WaitFifo(c, @, r, "readyok")]
                  ELSE /\ proc' = [proc EXCEPT ![c] = send(@,
                            << buildPositionCommand(req[r].body, r), GoCommand(opts, r) >>)]
                       /\ req' = [req EXCEPT ![r] = WaitReq(c, h, "bestmove")]
                       /\ waiters' = [waiters EXCEPT ![c] = WaitFifo(c, @, r, "bestmove")]
               /\ UNCHANGED <<requestStates, state, currentHashMb, stockfishReady, startupError, queue>>
          ELSE /\ onLineHandlers' = [onLineHandlers EXCEPT ![c] = @ \cup {r}]
               /\ proc' = [proc EXCEPT ![c] = send(@,
                    << [Cmd("setoption", r) EXCEPT !.n = HintMultipv(req[r].body)], Cmd("isready", r) >>)]
               /\ req' = [req EXCEPT ![r] = WaitReq(c, h, "readyok")]
               /\ waiters' = [waiters EXCEPT ![c] = WaitFifo(c, @, r, "readyok")]
               /\ UNCHANGED <<requestStates, state, activeRequestId, currentHashMb, stockfishReady,
                              startupError, queue>>
  /\ UNCHANGED <<timeVars, engineVars, unitVars>>

\* currentHashMb is not assigned after readyok
AfterReadyokKeepsHash(r) ==
  /\ LET c == ClientOf(r)
         opts == resolveMoveOptions(req[r].body)
         go == IF c = "engine" THEN GoCommand(opts, r)
               ELSE [Cmd("go", r) EXCEPT !.mode = "movetime", !.n = HintMovetime(req[r].body)]
     IN /\ req[r].pc = "resume" /\ req[r].e = "none" /\ req[r].at = "readyok"
        /\ proc' = [proc EXCEPT ![c] = send(@, << buildPositionCommand(req[r].body, r), go >>)]
        /\ req' = [req EXCEPT ![r] = WaitReq(c, @, "bestmove")]
        /\ waiters' = [waiters EXCEPT ![c] = WaitFifo(c, @, r, "bestmove")]
        /\ UNCHANGED <<requestStates, state, activeRequestId, currentHashMb, stockfishReady,
                       onLineHandlers, startupError, queue>>
  /\ UNCHANGED <<timeVars, engineVars, unitVars>>

\* the task of request r resumes after readyok
AfterReadyok(r) ==
  /\ LET c == ClientOf(r)
         opts == resolveMoveOptions(req[r].body)
         go == IF c = "engine" THEN GoCommand(opts, r)
               ELSE [Cmd("go", r) EXCEPT !.mode = "movetime", !.n = HintMovetime(req[r].body)]
     IN /\ req[r].pc = "resume" /\ req[r].e = "none" /\ req[r].at = "readyok"
        /\ currentHashMb' = IF c = "engine" THEN opts.hash_mb ELSE currentHashMb
        /\ proc' = [proc EXCEPT ![c] = send(@, << buildPositionCommand(req[r].body, r), go >>)]
        /\ req' = [req EXCEPT ![r] = WaitReq(c, @, "bestmove")]
        /\ waiters' = [waiters EXCEPT ![c] = WaitFifo(c, @, r, "bestmove")]
        /\ UNCHANGED <<requestStates, state, activeRequestId, stockfishReady, onLineHandlers,
                       startupError, queue>>
  /\ UNCHANGED <<timeVars, engineVars, unitVars>>

\* the task of request r settles: it leaves the queue and the link the next
\* task is chained to takes the value QueueLink gives it
Settled(c, r, e) ==
  [tasks |-> SelectSeq(queue[c].tasks, LAMBDA x : x # r), chain |-> QueueLink(e)]

\* the task returns without calling the function onLine returned
AfterBestmoveKeepsObserver(r) ==
  /\ LET c == ClientOf(r)
         st == [state[r] EXCEPT !.bestmove = req[r].best.move,
                                !.bookhit = state[r].bookhit \/ req[r].sawBookHit,
                                !.active = FALSE, !.finishedAt = clock.now]
         lines == HintLines(req[r].linesByPv, HintMultipv(req[r].body))
     IN /\ req[r].pc = "resume" /\ req[r].e = "none" /\ req[r].at = "bestmove"
        /\ IF c = "engine"
           THEN /\ state' = [state EXCEPT ![r] = st]
                /\ req' = [req EXCEPT ![r] = [@ EXCEPT !.pc = "done",
                             !.res = [serializeBestmove(st) EXCEPT !.status = 200, !.timeout = FALSE]]]
           ELSE /\ state' = state
                /\ req' = [req EXCEPT ![r] = [@ EXCEPT !.pc = "done",
                             !.res = [NoRes EXCEPT !.status = 200, !.lines = lines,
                                        !.uci = IF lines = << >> THEN "null" ELSE lines[1].uci]]]
        /\ waiters' = [waiters EXCEPT ![c] = cleanupWaitersForRequest(@, req[r].requestId)]
        /\ queue' = [queue EXCEPT ![c] = Settled(c, r, "none")]
        /\ UNCHANGED <<requestStates, activeRequestId, currentHashMb, stockfishReady, onLineHandlers,
                       startupError, proc>>
  /\ UNCHANGED <<timeVars, engineVars, unitVars>>

\* the task of request r resumes after bestmove, returns, and the handler
\* answers
AfterBestmove(r) ==
  /\ LET c == ClientOf(r)
         st == [state[r] EXCEPT !.bestmove = req[r].best.move,
                                !.bookhit = state[r].bookhit \/ req[r].sawBookHit,
                                !.active = FALSE, !.finishedAt = clock.now]
         lines == HintLines(req[r].linesByPv, HintMultipv(req[r].body))
     IN /\ req[r].pc = "resume" /\ req[r].e = "none" /\ req[r].at = "bestmove"
        /\ IF c = "engine"
           THEN /\ state' = [state EXCEPT ![r] = st]
                /\ req' = [req EXCEPT ![r] = [@ EXCEPT !.pc = "done",
                             !.res = [serializeBestmove(st) EXCEPT !.status = 200, !.timeout = FALSE]]]
           ELSE /\ state' = state
                /\ req' = [req EXCEPT ![r] = [@ EXCEPT !.pc = "done",
                             !.res = [NoRes EXCEPT !.status = 200, !.lines = lines,
                                        !.uci = IF lines = << >> THEN "null" ELSE lines[1].uci]]]
        /\ onLineHandlers' = [onLineHandlers EXCEPT ![c] = @ \ {r}]
        /\ waiters' = [waiters EXCEPT ![c] = cleanupWaitersForRequest(@, req[r].requestId)]
        /\ queue' = [queue EXCEPT ![c] = Settled(c, r, "none")]
        /\ UNCHANGED <<requestStates, activeRequestId, currentHashMb, stockfishReady, startupError, proc>>
  /\ UNCHANGED <<timeVars, engineVars, unitVars>>

\* the catch block without the assignment to activeRequestId
CatchKeepsPointer(r) ==
  /\ LET c == ClientOf(r)
         e == req[r].e
     IN /\ req[r].pc = "resume" /\ e # "none"
        /\ IF c = "engine"
           THEN /\ state' = [state EXCEPT ![r] = [@ EXCEPT !.active = FALSE, !.finishedAt = clock.now,
                                                           !.error = ErrorCode(e)]]
                /\ req' = [req EXCEPT ![r] = [@ EXCEPT !.pc = "done", !.res = MoveErrorResponse(e)]]
           ELSE /\ UNCHANGED state
                /\ req' = [req EXCEPT ![r] = [@ EXCEPT !.pc = "done", !.res = HintErrorResponse(e)]]
        /\ UNCHANGED activeRequestId
        /\ onLineHandlers' = [onLineHandlers EXCEPT ![c] = @ \ {r}]
        /\ waiters' = [waiters EXCEPT ![c] = cleanupWaitersForRequest(@, req[r].requestId)]
        /\ queue' = [queue EXCEPT ![c] = Settled(c, r, e)]
        /\ UNCHANGED <<requestStates, currentHashMb, stockfishReady, startupError, proc>>
  /\ UNCHANGED <<timeVars, engineVars, unitVars>>

\* a wait of the task of request r was rejected with e: the task rejects and
\* the catch and finally blocks of the handler run
Catch(r) ==
  /\ LET c == ClientOf(r)
         e == req[r].e
     IN /\ req[r].pc = "resume" /\ e # "none"
        /\ IF c = "engine"
           THEN /\ state' = [state EXCEPT ![r] = [@ EXCEPT !.active = FALSE, !.finishedAt = clock.now,
                                                           !.error = ErrorCode(e)]]
                /\ activeRequestId' = Null
                /\ req' = [req EXCEPT ![r] = [@ EXCEPT !.pc = "done", !.res = MoveErrorResponse(e)]]
           ELSE /\ UNCHANGED <<state, activeRequestId>>
                /\ req' = [req EXCEPT ![r] = [@ EXCEPT !.pc = "done", !.res = HintErrorResponse(e)]]
        /\ onLineHandlers' = [onLineHandlers EXCEPT ![c] = @ \ {r}]
        /\ waiters' = [waiters EXCEPT ![c] = cleanupWaitersForRequest(@, req[r].requestId)]
        /\ queue' = [queue EXCEPT ![c] = Settled(c, r, e)]
        /\ UNCHANGED <<requestStates, currentHashMb, stockfishReady, startupError, proc>>
  /\ UNCHANGED <<timeVars, engineVars, unitVars>>

\* ------------------------------------------------------- timers and errors
\* the timer of the i-th waiter of client c fires
TimerFire(c, i) ==
  /\ MacroOK
  /\ i \in 1..Len(waiters[c])
  /\ waiters[c][i].timer
  /\ LET w == waiters[c][i]
     IN /\ waiters' = [waiters EXCEPT ![c] = SelectSeq(@, LAMBDA x : x # w)]
        /\ req' = [req EXCEPT ![w.owner] = [@ EXCEPT !.pc = "resume", !.e = "engine timeout"]]
  /\ UNCHANGED <<requestStates, state, activeRequestId, currentHashMb, stockfishReady,
                 onLineHandlers, startupError, queue, proc>>
  /\ UNCHANGED <<timeVars, engineVars, unitVars>>

\* child processes that have failed so far
Faults ==
  Cardinality({c \in Clients : proc[c].status = "exited"})
  + Cardinality({c \in Clients : startupError[c]})

\* proc.on('error')
ProcError(c) ==
  /\ MacroOK
  /\ Faults < MaxFaults
  /\ ~startupError[c]
  /\ startupError' = [startupError EXCEPT ![c] = TRUE]
  /\ waiters' = [waiters EXCEPT ![c] = << >>]
  /\ req' = [r \in Reqs |->
               IF \E i \in 1..Len(waiters[c]) : waiters[c][i].owner = r
               THEN [req[r] EXCEPT !.pc = "resume", !.e = "spawn error"]
               ELSE req[r]]
  /\ UNCHANGED <<requestStates, state, activeRequestId, currentHashMb, stockfishReady,
                 onLineHandlers, queue, proc>>
  /\ UNCHANGED <<timeVars, engineVars, unitVars>>

\* ------------------------------------------------------------ rl.on('line')
\* the predicate of a waiter
Matches(w, line) ==
  \/ w.pred = "readyok" /\ line.kind = "readyok"
  \/ w.pred = "bestmove" /\ line.kind = "bestmove"
  \/ w.pred = "uciok" /\ line.kind = "uciok"

\* index of the last waiter whose predicate matches, 0 if none
LastMatch(W, line) ==
  IF \E i \in 1..Len(W) : Matches(W[i], line)
  THEN CHOOSE i \in 1..Len(W) : Matches(W[i], line) /\ \A j \in (i + 1)..Len(W) : ~Matches(W[j], line)
  ELSE 0

\* index of the first waiter whose predicate matches, 0 if none
FirstMatch(W, line) ==
  IF \E i \in 1..Len(W) : Matches(W[i], line)
  THEN CHOOSE i \in 1..Len(W) : Matches(W[i], line) /\ \A j \in 1..(i - 1) : ~Matches(W[j], line)
  ELSE 0

\* the waiter the line resolves stays in the FIFO
RemoveAtNothing(W, i) == W

RemoveAt(W, i) == [j \in 1..(Len(W) - 1) |-> IF j < i THEN W[j] ELSE W[j + 1]]

\* the transient observer of request r sees the line
Observed(c, h, line) ==
  IF c = "engine"
  THEN [h EXCEPT !.sawBookHit = @ \/ line.kind = "bookhit"]
  ELSE LET parsed == parseStockfishMultipv(line)
       IN IF parsed.set /\ parsed.multipv \in 1..MaxPv
          THEN [h EXCEPT !.linesByPv[parsed.multipv] = parsed]
          ELSE h

\* the permanent observer without the test of the pointer
ObservedByFirst == IF activeRequestId = Null THEN 1 ELSE requestStates[activeRequestId]

\* the permanent observer of the primary client: the state object it writes
ObservedBy == IF activeRequestId = Null THEN Null ELSE requestStates[activeRequestId]

\* a line of client c arrives: every observer sees it, then the first
\* matching waiter is resolved
RlOnLine(c, line) ==
  LET s == ObservedBy
      parsedInfo == parseInfoLine(line)
      i == FirstMatch(waiters[c], line)
  IN /\ IF c = "engine" /\ s # Null
        THEN IF parsedInfo.set
             THEN /\ state' = [state EXCEPT ![s] = [@ EXCEPT !.lastInfo = parsedInfo, !.lastInfoAt = TRUE]]
                  /\ UNCHANGED activeRequestId
             ELSE IF line.kind = "bestmove"
             THEN /\ state' = [state EXCEPT ![s] = [@ EXCEPT !.bestmove = line.move,
                                                             !.active = FALSE, !.finishedAt = clock.now]]
                  /\ activeRequestId' = Null
             ELSE UNCHANGED <<state, activeRequestId>>
        ELSE UNCHANGED <<state, activeRequestId>>
     /\ waiters' = [waiters EXCEPT ![c] = IF i = 0 THEN @ ELSE RemoveAt(@, i)]
     /\ req' = [r \in Reqs |->
                  LET h == IF r \in onLineHandlers[c] THEN Observed(c, req[r], line) ELSE req[r]
                  IN IF i # 0 /\ waiters[c][i].owner = r
                     THEN [h EXCEPT !.pc = "resume", !.best = line]
                     ELSE h]

\* ----------------------------------------------------- the child processes
\* the process may take a step: the event loop of the service is idle, or
\* the lines it prints join the chunk being read
ProcOK(c) == MacroOK \/ BatchOK(c)

\* the child reads the next line of its stdin and handles it; what it
\* prints for the command is queued in out and printed line by line
EngineRead(c) ==
  /\ LET p == proc[c]
         cmd == Head(p.stdin)
         q == [p EXCEPT !.stdin = Tail(@)]
     IN /\ ProcOK(c)
        /\ p.status = "run" /\ p.out = << >> /\ p.stdin # << >>
        /\ \/ /\ cmd.cmd = "setoption"
              /\ proc' = [proc EXCEPT ![c] =
                    IF c = "stockfish" THEN [q EXCEPT !.multipv = cmd.n]
                    ELSE IF StoiThrows(cmd) THEN [q EXCEPT !.status = "crashed", !.stdin = << >>]
                    ELSE [q EXCEPT !.hash = Max(1, cmd.n)]]
           \/ /\ cmd.cmd = "isready"
              /\ proc' = [proc EXCEPT ![c] = [q EXCEPT !.out = <<ReadyokLine(cmd.by)>>]]
           \/ /\ cmd.cmd = "position"
              /\ LET u == uci_position(cmd)
                 IN proc' = [proc EXCEPT ![c] = [q EXCEPT !.board = u.board, !.move_history = u.move_history]]
           \/ /\ cmd.cmd = "go"
              /\ IF c = "engine" /\ StoiThrows(cmd)
                 THEN proc' = [proc EXCEPT ![c] = [q EXCEPT !.status = "crashed", !.stdin = << >>,
                                                            !.goes = @ + 1]]
                 ELSE \E o \in (IF c = "engine" THEN GoOutputs(p, cmd) ELSE StockfishOutputs(p, cmd)) :
                        proc' = [proc EXCEPT ![c] = [q EXCEPT !.out = o, !.goes = @ + 1]]
        /\ UNCHANGED <<requestStates, state, activeRequestId, currentHashMb, stockfishReady,
                       waiters, onLineHandlers, startupError, queue, req>>
  /\ UNCHANGED <<timeVars, engineVars, unitVars>>

\* the child prints its next line and rl.on('line') of the client runs
EngineEmit(c) ==
  /\ LET p == proc[c]
         line == Head(p.out)
     IN /\ ProcOK(c)
        /\ p.status = "run" /\ p.out # << >>
        /\ proc' = [proc EXCEPT ![c] = [p EXCEPT !.out = Tail(@),
                                          !.bests = @ + (IF line.kind = "bestmove" THEN 1 ELSE 0)]]
        /\ RlOnLine(c, line)
        /\ UNCHANGED <<requestStates, currentHashMb, stockfishReady, onLineHandlers, startupError, queue>>
  /\ UNCHANGED <<timeVars, engineVars, unitVars>>

\* the child process exits (killed, or closed by its owner); nothing more is
\* read or printed
EngineExit(c) ==
  /\ MacroOK
  /\ Faults < MaxFaults
  /\ proc[c].status = "run"
  /\ proc' = [proc EXCEPT ![c] = [@ EXCEPT !.status = "exited", !.stdin = << >>, !.out = << >>]]
  /\ UNCHANGED <<requestStates, state, activeRequestId, currentHashMb, stockfishReady,
                 waiters, onLineHandlers, startupError, queue, req>>
  /\ UNCHANGED <<timeVars, engineVars, unitVars>>

\* ------------------------------------------------------ the specification
Next ==
  \/ \E r \in Reqs, body \in MoveBodies : PostMove(r, body)
  \/ \E r \in Reqs, body \in HintBodies : PostHint(r, body)
  \/ \E c \in Clients : TaskStart(c)
  \/ \E r \in Reqs : AfterReadyok(r)
  \/ \E r \in Reqs : AfterBestmove(r)
  \/ \E r \in Reqs : Catch(r)
  \/ \E c \in Clients, i \in 1..MaxReq : TimerFire(c, i)
  \/ \E c \in Clients : ProcError(c)
  \/ \E c \in Clients : EngineRead(c)
  \/ \E c \in Clients : EngineEmit(c)
  \/ \E c \in Clients : EngineExit(c)

Spec == Init /\ [][Next]_vars

\* ------------------------------------------------------------ initClients
\* the module is loaded: both children are spawned, stockfishReady is false
\* and initClients has not run
StartupInit ==
  /\ requestStates = [i \in Ids |-> Null]
  /\ state = [r \in Reqs |-> NoState]
  /\ activeRequestId = Null
  /\ currentHashMb = DefaultHashMb
  /\ stockfishReady = FALSE
  /\ waiters = [c \in Clients |-> << >>]
  /\ onLineHandlers = [c \in Clients |-> {}]
  /\ startupError = [c \in Clients |-> FALSE]
  /\ queue = [c \in Clients |-> [tasks |-> << >>, chain |-> "fulfilled"]]
  /\ req = [r \in Reqs |-> NoReq]
  /\ proc = [c \in Clients |-> NoProc]
  /\ clock = NoClock
  /\ statusRes = NoStatus
  /\ startup = "engine"
  /\ EngineOff
  /\ UnitOff

\* initClients, the handshake with the primary: uci, uciok, isready,
\* readyok.  A wait that is rejected rejects initClients: the module stops
\* loading and the server never listens.
StartEngine(ok) ==
  /\ startup = "engine"
  /\ startup' = IF ok THEN "stockfish" ELSE "failed"
  /\ UNCHANGED <<requestStates, state, activeRequestId, currentHashMb, stockfishReady,
                 waiters, onLineHandlers, startupError, queue, req, proc, clock, statusRes>>
  /\ UNCHANGED <<engineVars, unitVars>>

\* what the handshake with the secondary can come to: both answers in time,
\* the binary is missing (the 'error' event of spawn), no uciok in 3 s, no
\* readyok in 3 s
HandshakeOutcomes == {"ready", "missing", "no uciok", "no readyok"}

\* the child of the secondary after the handshake: absent, or with the
\* command it has not answered in its stdin
HandshakeProc(p, o) ==
  CASE o = "missing" -> [p EXCEPT !.status = "exited"]
    [] o = "no uciok" -> [p EXCEPT !.stdin = <<Cmd("uci", Null)>>]
    [] o = "no readyok" -> [p EXCEPT !.stdin = <<Cmd("isready", Null)>>]
    [] OTHER -> p

\* stockfishReady is set whatever the handshake came to
StartStockfishAlwaysReady(o) ==
  /\ startup = "stockfish"
  /\ startup' = "listening"
  /\ stockfishReady' = TRUE
  /\ startupError' = [startupError EXCEPT !["stockfish"] = (o = "missing")]
  /\ proc' = [proc EXCEPT !["stockfish"] = HandshakeProc(@, o)]
  /\ UNCHANGED <<requestStates, state, activeRequestId, currentHashMb, waiters,
                 onLineHandlers, queue, req, clock, statusRes>>
  /\ UNCHANGED <<engineVars, unitVars>>

\* initClients, the handshake with the secondary, in try / catch: the catch
\* block leaves stockfishReady false; then the server listens
StartStockfish(o) ==
  /\ startup = "stockfish"
  /\ startup' = "listening"
  /\ stockfishReady' = (o = "ready")
  /\ startupError' = [startupError EXCEPT !["stockfish"] = (o = "missing")]
  /\ proc' = [proc EXCEPT !["stockfish"] = HandshakeProc(@, o)]
  /\ UNCHANGED <<requestStates, state, activeRequestId, currentHashMb, waiters,
                 onLineHandlers, queue, req, clock, statusRes>>
  /\ UNCHANGED <<engineVars, unitVars>>

\* the handlers run once the server listens
StartupNext ==
  \/ \E ok \in BOOLEAN : StartEngine(ok)
  \/ \E o \in HandshakeOutcomes : StartStockfish(o)
  \/ startup = "listening" /\ \E r \in Reqs, body \in MoveBodies : PostMove(r, body)
  \/ startup = "listening" /\ \E r \in Reqs, body \in HintBodies : PostHint(r, body)
  \/ startup = "listening" /\ \E c \in Clients : TaskStart(c)
  \/ startup = "listening" /\ \E r \in Reqs : AfterReadyok(r)
  \/ startup = "listening" /\ \E r \in Reqs : AfterBestmove(r)
  \/ startup = "listening" /\ \E r \in Reqs : Catch(r)
  \/ startup = "listening" /\ \E c \in Clients, i \in 1..MaxReq : TimerFire(c, i)
  \/ startup = "listening" /\ \E c \in Clients : ProcError(c)
  \/ startup = "listening" /\ \E c \in Clients : EngineRead(c)
  \/ startup = "listening" /\ \E c \in Clients : EngineEmit(c)
  \/ startup = "listening" /\ \E c \in Clients : EngineExit(c)

StartupSpec == StartupInit /\ [][StartupNext]_vars

\* ------------------------------------------ GET /api/move/status/:id, time
\* the steps the clock takes: a millisecond, a minute
TickSizes == {1, 60000}

\* time passes between two turns of the event loop
Tick(d) ==
  /\ MacroOK
  /\ clock.ticks < MaxTicks
  /\ clock' = [now |-> clock.now + d, ticks |-> clock.ticks + 1]
  /\ UNCHANGED <<requestStates, state, activeRequestId, currentHashMb, stockfishReady,
                 waiters, onLineHandlers, startupError, queue, req, proc, statusRes, startup>>
  /\ UNCHANGED <<engineVars, unitVars>>

\* what the status handler answers for id from the map rs at the time now:
\* 404, or serializeState of the entry
StatusAnswer(rs, st, id, now) ==
  IF rs[id] = Null THEN [NoStatus EXCEPT !.status = 404, !.id = id, !.at = now]
  ELSE [status |-> 200, id |-> st[rs[id]].id, active |-> st[rs[id]].active,
        finishedAt |-> st[rs[id]].finishedAt, at |-> now]

\* GET /api/move/status/:id
GetStatus(id) ==
  /\ MacroOK
  /\ requestStates' = cleanupOldStates(requestStates, state, clock.now)
  /\ statusRes' = StatusAnswer(requestStates', state, id, clock.now)
  /\ UNCHANGED <<state, activeRequestId, currentHashMb, stockfishReady, waiters,
                 onLineHandlers, startupError, queue, req, proc, clock, startup>>
  /\ UNCHANGED <<engineVars, unitVars>>

\* the bodies of the moves whose status is asked: without and with the
\* x-request-id header
StatusBodies ==
  { [Body("startfen", "undefined", << >>) EXCEPT !.movetime_ms = 200],
    [Body("startfen", "undefined", << >>) EXCEPT !.movetime_ms = 200, !.hdr = 101] }

\* moves on a primary that answers, answers late or stays silent, the
\* clock and the status requests
StatusNext ==
  \/ \E r \in Reqs, body \in StatusBodies : PostMove(r, body)
  \/ TaskStart("engine")
  \/ \E r \in Reqs : AfterBestmove(r)
  \/ \E r \in Reqs : Catch(r)
  \/ \E i \in 1..MaxReq : TimerFire("engine", i)
  \/ EngineRead("engine")
  \/ EngineEmit("engine")
  \/ \E d \in TickSizes : Tick(d)
  \/ \E id \in Ids : GetStatus(id)

StatusInit == Init /\ stockfishReady = TRUE

StatusSpec == StatusInit /\ [][StatusNext]_vars

\* The event loop runs every pending promise continuation and fires every
\* timer that is not cleared.  Nothing is assumed of the child processes:
\* they may stay silent for ever.
FairSpec ==
  /\ Spec
  /\ WF_vars(\E c \in Clients : TaskStart(c))
  /\ WF_vars(\E r \in Reqs : AfterReadyok(r))
  /\ WF_vars(\E r \in Reqs : AfterBestmove(r))
  /\ WF_vars(\E r \in Reqs : Catch(r))
  /\ WF_vars(\E c \in Clients, i \in 1..MaxReq : TimerFire(c, i))

TypeOK ==
  /\ activeRequestId \in Ids \cup {Null}
  /\ \A r \in Reqs : req[r].pc \in {"new", "queued", "await", "resume", "done"}
  /\ \A c \in Clients : proc[c].status \in {"run", "exited", "crashed"}

\* ================================================================= claims
Accepted(r) == req[r].pc \in {"queued", "await", "resume", "done"} /\ req[r].res.status \notin {400, 503}

MoveReqs == {r \in Reqs : req[r].endpoint = "move"}

\* the task body of request r has started and its task has not settled
InBody(r) == req[r].started /\ req[r].pc \in {"await", "resume"}

Bodies(c) == {r \in Reqs : ClientOf(r) = c /\ InBody(r)}

\* the commands a step appends to the stdin of client c
Written(c) ==
  IF Len(proc'[c].stdin) > Len(proc[c].stdin)
  THEN {proc'[c].stdin[i] : i \in (Len(proc[c].stdin) + 1)..Len(proc'[c].stdin)}
  ELSE {}

\* C1: the bestmove line that resolves the wait of a /api/move request, and
\* every info line stored in its state, was printed by the engine for the go
\* command of that same request.
C1_OwnLinesOnly ==
  \A r \in MoveReqs :
    /\ state[r].lastInfo.set => state[r].lastInfo.raw.by = r
    /\ req[r].best.kind = "bestmove" => req[r].best.by = r

\* C2: on each client the task bodies never overlap: a body runs only when
\* every task enqueued before it has settled, and every command written to
\* the child is written by the one task whose body is running.
C2_TasksSerialized ==
  /\ [](\A c \in Clients : \A r \in Bodies(c) :
          /\ Bodies(c) = {r}
          /\ \A r2 \in Reqs : r2 < r /\ ClientOf(r2) = c /\ Accepted(r2) => req[r2].pc = "done")
  /\ [][\A c \in Clients : \A w \in Written(c) : Bodies(c)' = {w.by}]_vars

\* C2 witness: one task waits for its engine while a second task of the same
\* client is queued behind it and the first task's commands are in stdin
C2_Witness ==
  \E c \in Clients : \E r1, r2 \in Reqs :
    /\ r1 # r2 /\ ClientOf(r1) = c /\ ClientOf(r2) = c
    /\ req[r1].pc = "await" /\ req[r2].pc = "queued"
    /\ proc[c].stdin # << >>

\* C3: a rejected task does not break its queue.  Every accepted task starts
\* its body, bodies start in enqueue order, a rejection reaches a handler
\* only from a wait of its own task, and every queued task is started and
\* settled in the end.
C3_QueueSurvivesRejection ==
  /\ [](\A r \in Reqs :
          /\ (req[r].pc = "done" /\ Accepted(r)) => req[r].started
          /\ req[r].started =>
               \A r2 \in Reqs : r2 < r /\ ClientOf(r2) = ClientOf(r) /\ Accepted(r2) => req[r2].started
          /\ req[r].e # "none" => req[r].started /\ req[r].at \in {"readyok", "bestmove"})
  /\ \A r \in Reqs : [](req[r].pc = "queued" => <>(req[r].started /\ req[r].pc = "done"))

\* C3 witness: a task was rejected and the next task of the same client ran
\* and returned a result
C3_Witness ==
  \E r1, r2 \in Reqs :
    /\ r1 < r2 /\ Accepted(r1) /\ Accepted(r2) /\ ClientOf(r1) = ClientOf(r2)
    /\ req[r1].pc = "done" /\ req[r1].e # "none"
    /\ req[r2].pc = "done" /\ req[r2].e = "none" /\ req[r2].started

\* C4: every accepted request is answered and every registered state stops
\* being active, whatever the engines do or fail to do.
C4_EveryRequestAnswered ==
  \A r \in Reqs :
    /\ [](Accepted(r) => <>(req[r].res.status # 0))
    /\ [](state[r].made => <>(~state[r].active))

\* C4 witness: a request was answered after its engine had exited
C4_Witness ==
  \E r \in Reqs :
    /\ Accepted(r) /\ req[r].pc = "done" /\ req[r].res.timeout
    /\ proc[ClientOf(r)].status # "run"
    /\ (req[r].endpoint = "move" => ~state[r].active)

\* C5: a request state leaves active once and for all; a finalized state
\* never gets an error code; an errored state has no bestmove.
C5_TerminalStates ==
  /\ [][\A r \in Reqs :
          /\ (state[r].made /\ ~state[r].active) => ~state'[r].active
          /\ (state[r].bestmove # "null" /\ state[r].error = "null") => state'[r].error = "null"]_vars
  /\ [](\A r \in Reqs : state[r].error # "null" => state[r].bestmove = "null")

\* C6: a move task that fails with 'engine timeout' is answered 200 with uci
\* null, timeout true, terminal false and leaves active=false, finishedAt
\* set, error ENGINE_TIMEOUT; any other failure is answered 500 ENGINE_ERROR
\* and leaves error ENGINE_ERROR.
C6_FailureAnswers ==
  \A r \in MoveReqs :
    (req[r].pc = "done" /\ req[r].e # "none") =>
      /\ ~state[r].active /\ state[r].finishedAt # 0
      /\ IF req[r].e = "engine timeout"
         THEN /\ req[r].res.status = 200 /\ req[r].res.uci = "null"
              /\ req[r].res.timeout /\ ~req[r].res.terminal
              /\ state[r].error = "ENGINE_TIMEOUT"
         ELSE /\ req[r].res.status = 500 /\ req[r].res.code = "ENGINE_ERROR"
              /\ state[r].error = "ENGINE_ERROR"

\* C6 witness: a move request whose wait timed out has been answered
C6_Witness ==
  \E r \in MoveReqs : req[r].pc = "done" /\ req[r].e = "engine timeout"

\* C7: a /api/move request without fen, or with a moves_uci that is no
\* array, is answered 400 with its code and changes nothing else: no state
\* is registered, no task enqueued, nothing written to a child.
C7_InvalidChangesNothing ==
  [][\A r \in Reqs :
       (req[r].pc = "new" /\ req'[r].pc # "new" /\ req'[r].endpoint = "move"
        /\ (req'[r].body.fen = "" \/ req'[r].body.moves_uci.kind = "nonarray")) =>
         /\ req'[r].res.status = 400
         /\ req'[r].res.code = (IF req'[r].body.fen = "" THEN "MISSING_FEN" ELSE "INVALID_MOVES_UCI")
         /\ UNCHANGED <<requestStates, state, activeRequestId, currentHashMb, waiters,
                        onLineHandlers, queue, proc>>]_vars

\* C7 witness: a request was refused for its moves_uci while the task of
\* another request was waiting for the engine
C7_Witness ==
  \E r, r2 \in MoveReqs :
    /\ req[r].res.code = "INVALID_MOVES_UCI" /\ req[r].pc = "done"
    /\ req[r2].pc = "await"

\* the position a request body names
PositionOf(body) == uci_position(buildPositionCommand(body, 0)).board

\* C8: a checkmate position is answered uci null, terminal, reason CHECKMATE;
\* NO_LEGAL_MOVES is answered only for a stalemate.
C8_TerminalReason ==
  \A r \in MoveReqs :
    (req[r].pc = "done" /\ req[r].res.status = 200 /\ ~req[r].res.timeout /\ req[r].best.by = r) =>
      /\ PositionOf(req[r].body) = "mate" =>
           req[r].res.uci = "null" /\ req[r].res.terminal /\ req[r].res.reason = "CHECKMATE"
      /\ req[r].res.reason = "NO_LEGAL_MOVES" => PositionOf(req[r].body) = "stalemate"

\* C9: a /api/move request that arrives after the primary engine has exited
\* is answered 500 ENGINE_ERROR and its state ends with error ENGINE_ERROR.
C9_DeadEngineIsError ==
  \A r \in MoveReqs :
    (req[r].afterExit /\ Accepted(r) /\ req[r].pc = "done") =>
      /\ req[r].res.status = 500 /\ req[r].res.code = "ENGINE_ERROR"
      /\ state[r].error = "ENGINE_ERROR"

\* C10: the engine answers every go with exactly one bestmove, printed after
\* the info lines of the search and before the next command is read; it is
\* 0000 exactly when the position has no legal move and a legal move otherwise.
C10_OneLegalBestmovePerGo ==
  LET p == proc["engine"]
      legal == SeqToSet(gen_legal(p.board))
  IN /\ \A i \in 1..Len(p.out) :
          p.out[i].kind = "bestmove" =>
            /\ i = Len(p.out)
            /\ p.out[i].move = "0000" <=> legal = {}
            /\ p.out[i].move # "0000" => p.out[i].move \in legal
     /\ p.status # "exited" =>
          p.goes = p.bests + (IF \E i \in 1..Len(p.out) : p.out[i].kind = "bestmove" THEN 1 ELSE 0)

\* ================================================================ the engine
\* ------------------------------------------------- Board and move generator
EMPTY == 0
PAWN == 1
KNIGHT == 2
BISHOP == 3
ROOK == 4
QUEEN == 5
KING == 6

Squares == 0..63

color_of(p) == IF p > 0 THEN WHITE ELSE BLACK
abs_piece(p) == IF p >= 0 THEN p ELSE -p
file_of(s) == s % 8
rank_of(s) == s \div 8
on_board(f, r) == f >= 0 /\ f < 8 /\ r >= 0 /\ r < 8
sq_of(f, r) == r * 8 + f
Opp(c) == IF c = WHITE THEN BLACK ELSE WHITE

\* Move::flags
CAPTURE == 1
ENPASSANT == 2
CASTLE == 4
DOUBLEP == 8
PROMO == 16

\* c & bit, c | bit, c & ~bit on a bit mask
HasBit(c, bit) == (c \div bit) % 2 = 1
SetBit(c, bit) == IF HasBit(c, bit) THEN c ELSE c + bit
ClearBit(c, bit) == IF HasBit(c, bit) THEN c - bit ELSE c

Move(from, to, promo, flags) == [from |-> from, to |-> to, promo |-> promo, flags |-> flags]

RECURSIVE Concat(_)
Concat(ss) == IF ss = << >> THEN << >> ELSE Head(ss) \o Concat(Tail(ss))

\* init_attack_tables: the squares one step of the table away, in table order
Steps(s, deltas) ==
  LET cand == [i \in 1..Len(deltas) |-> <<file_of(s) + deltas[i][1], rank_of(s) + deltas[i][2]>>]
      ok == SelectSeq(cand, LAMBDA c : on_board(c[1], c[2]))
  IN [i \in 1..Len(ok) |-> sq_of(ok[i][1], ok[i][2])]

KNIGHT_STEPS ==
  [s \in Squares |->
     Steps(s, << <<-2, 1>>, <<-1, 2>>, <<1, 2>>, <<2, 1>>, <<2, -1>>, <<1, -2>>, <<-1, -2>>, <<-2, -1>> >>)]

KING_STEPS ==
  [s \in Squares |->
     Steps(s, << <<-1, -1>>, <<-1, 0>>, <<-1, 1>>, <<0, -1>>, <<0, 1>>, <<1, -1>>, <<1, 0>>, <<1, 1>> >>)]

PAWN_ATTACKS ==
  [c \in {WHITE, BLACK} |->
     [s \in Squares |->
        IF c = WHITE THEN Steps(s, << <<-1, 1>>, <<1, 1>> >>) ELSE Steps(s, << <<-1, -1>>, <<1, -1>> >>)]]

dB == << <<1, 1>>, <<-1, 1>>, <<1, -1>>, <<-1, -1>> >>
dR == << <<0, 1>>, <<0, -1>>, <<1, 0>>, <<-1, 0>> >>

\* Zobrist.  init_zobrist draws 793 64-bit numbers; Z_PIECE, Z_CASTLE,
\* Z_EPFILE and Z_SIDE give the place of each in the order it is drawn.  A
\* key is the set of the numbers XORed into it an odd number of times, and
\* two keys are equal when these sets are: no two sets of numbers that occur
\* are taken to XOR to the same 64 bits.
pidx(p) == IF p > 0 THEN abs_piece(p) - 1 ELSE 6 + (abs_piece(p) - 1)
Z_PIECE(i, s) == i * 64 + s
Z_CASTLE(c) == 768 + c
Z_EPFILE(f) == 784 + f
Z_SIDE == 792
Xor(k, z) == IF z \in k THEN k \ {z} ELSE k \cup {z}

RECURSIVE XorAll(_, _)
XorAll(k, zs) == IF zs = << >> THEN k ELSE XorAll(Xor(k, Head(zs)), Tail(zs))

\* Board(): the constructor
NewBoard ==
  [sq |-> [s \in Squares |-> 0], side |-> WHITE, castling |-> 0, ep |-> -1,
   halfmove |-> 0, fullmove |-> 1, key |-> {}, key_hist |-> << >>]

compute_key(b) ==
  {Z_PIECE(pidx(b.sq[i]), i) : i \in {s \in Squares : b.sq[s] # 0}}
    \cup {Z_CASTLE(b.castling % 16)}
    \cup (IF b.ep # -1 THEN {Z_EPFILE(file_of(b.ep))} ELSE {})
    \cup (IF b.side = BLACK THEN {Z_SIDE} ELSE {})

\* A character of a FEN or of a move text
Digit(c) ==
  CASE c = "0" -> 0 [] c = "1" -> 1 [] c = "2" -> 2 [] c = "3" -> 3 [] c = "4" -> 4
    [] c = "5" -> 5 [] c = "6" -> 6 [] c = "7" -> 7 [] c = "8" -> 8 [] c = "9" -> 9
    [] OTHER -> -1
FileChar(c) ==
  CASE c = "a" -> 0 [] c = "b" -> 1 [] c = "c" -> 2 [] c = "d" -> 3 [] c = "e" -> 4
    [] c = "f" -> 5 [] c = "g" -> 6 [] c = "h" -> 7 [] OTHER -> -1
PieceChar(c) ==
  CASE c \in {"P", "p"} -> PAWN [] c \in {"N", "n"} -> KNIGHT [] c \in {"B", "b"} -> BISHOP
    [] c \in {"R", "r"} -> ROOK [] c \in {"Q", "q"} -> QUEEN [] c \in {"K", "k"} -> KING
    [] OTHER -> EMPTY
IsUpper(c) == c \in {"P", "N", "B", "R", "Q", "K"}

\* str_to_sq on the characters of a square name
str_to_sq(s) ==
  IF Len(s) # 2 THEN -1
  ELSE LET f == FileChar(s[1])
           r == Digit(s[2]) - 1
       IN IF f >= 0 /\ Digit(s[2]) >= 0 /\ on_board(f, r) THEN sq_of(f, r) ELSE -1

SqName(s) ==
  << <<"a">>, <<"b">>, <<"c">>, <<"d">>, <<"e">>, <<"f">>, <<"g">>, <<"h">> >>[file_of(s) + 1]
    \o << <<"1">>, <<"2">>, <<"3">>, <<"4">>, <<"5">>, <<"6">>, <<"7">>, <<"8">> >>[rank_of(s) + 1]

promo_to_char(promo) ==
  CASE promo = QUEEN -> <<"q">> [] promo = ROOK -> <<"r">> [] promo = BISHOP -> <<"b">>
    [] promo = KNIGHT -> <<"n">> [] OTHER -> << >>

char_to_promo(c) ==
  CASE c \in {"q", "Q"} -> QUEEN [] c \in {"r", "R"} -> ROOK [] c \in {"b", "B"} -> BISHOP
    [] c \in {"n", "N"} -> KNIGHT [] OTHER -> EMPTY

\* move_to_uci: the characters of the move text
move_to_uci(m) == SqName(m.from) \o SqName(m.to) \o promo_to_char(m.promo)

\* set_fen, the placement loop up to the next "/": [ok, sq, i, f], where i is
\* the place of the "/" that stopped it (past the end when none did)
RECURSIVE PlaceRank(_, _, _, _, _)
PlaceRank(sq, chars, i, f, r) ==
  IF i > Len(chars) \/ chars[i] = "/" THEN [ok |-> TRUE, sq |-> sq, i |-> i]
  ELSE LET c == chars[i]
       IN IF Digit(c) >= 0 THEN PlaceRank(sq, chars, i + 1, f + Digit(c), r)
          ELSE IF ~on_board(f, r) THEN [ok |-> FALSE, sq |-> sq, i |-> i]
          ELSE IF PieceChar(c) = EMPTY THEN [ok |-> FALSE, sq |-> sq, i |-> i]
          ELSE PlaceRank([sq EXCEPT ![sq_of(f, r)] = IF IsUpper(c) THEN PieceChar(c) ELSE -PieceChar(c)],
                         chars, i + 1, f + 1, r)

\* set_fen, the placement loop: [ok, sq] after the characters from i on
RECURSIVE Place(_, _, _, _)
Place(sq, chars, i, r) ==
  LET rank == PlaceRank(sq, chars, i, 0, r)
  IN IF ~rank.ok THEN [ok |-> FALSE, sq |-> rank.sq]
     ELSE IF rank.i > Len(chars) THEN [ok |-> TRUE, sq |-> rank.sq]
     ELSE Place(rank.sq, chars, rank.i + 1, r - 1)

RECURSIVE CastFlags(_, _)
CastFlags(c, chars) ==
  IF chars = << >> THEN c
  ELSE LET h == Head(chars)
           n == CASE h = "K" -> SetBit(c, 1) [] h = "Q" -> SetBit(c, 2)
                  [] h = "k" -> SetBit(c, 4) [] h = "q" -> SetBit(c, 8) [] OTHER -> c
       IN CastFlags(n, Tail(chars))

\* Board::set_fen.  A FEN is the record of its six fields: placement, cast
\* and eps are the characters of the field, halfmove and fullmove are
\* [isInt, val].  [ok, board]: ok is the value set_fen returns.
Board_set_fen(b, fen) ==
  LET reset == [b EXCEPT !.sq = [s \in Squares |-> 0], !.side = WHITE, !.castling = 0,
                         !.ep = -1, !.halfmove = 0, !.fullmove = 1]
  IN IF ~fen.halfmove.isInt THEN [ok |-> FALSE, board |-> reset]
     ELSE IF ~fen.fullmove.isInt
     THEN [ok |-> FALSE, board |-> [reset EXCEPT !.halfmove = fen.halfmove.val, !.fullmove = 0]]
     ELSE LET counted == [reset EXCEPT !.halfmove = fen.halfmove.val, !.fullmove = fen.fullmove.val]
              placed == Place(counted.sq, fen.placement, 1, 7)
          IN IF ~placed.ok THEN [ok |-> FALSE, board |-> [counted EXCEPT !.sq = placed.sq]]
             ELSE LET set == [counted EXCEPT
                                !.sq = placed.sq,
                                !.side = IF fen.stm = "w" THEN WHITE ELSE BLACK,
                                !.castling = IF fen.cast = <<"-">> THEN 0 ELSE CastFlags(0, fen.cast),
                                !.ep = IF fen.eps # <<"-">> THEN str_to_sq(fen.eps) ELSE -1]
                      k == compute_key(set)
                  IN [ok |-> TRUE, board |-> [set EXCEPT !.key = k, !.key_hist = <<k>>]]

find_king(b, c) ==
  LET k == IF c = WHITE THEN KING ELSE -KING
      at == {s \in Squares : b.sq[s] = k}
  IN IF at = {} THEN -1 ELSE CHOOSE s \in at : \A t \in at : s <= t

\* is_square_attacked, one ray: the first piece met is of colour by and of one of kinds
RECURSIVE RayHit(_, _, _, _, _, _, _)
RayHit(b, f, r, df, dr, by, kinds) ==
  IF ~on_board(f, r) THEN FALSE
  ELSE LET p == b.sq[sq_of(f, r)]
       IN IF p # 0 THEN color_of(p) = by /\ abs_piece(p) \in kinds
          ELSE RayHit(b, f + df, r + dr, df, dr, by, kinds)

is_square_attacked(b, target, by) ==
  LET tf == file_of(target)
      tr == rank_of(target)
      r == IF by = WHITE THEN tr - 1 ELSE tr + 1
      pawn == IF by = WHITE THEN PAWN ELSE -PAWN
  IN \/ /\ r >= 0 /\ r < 8
        /\ \/ tf - 1 >= 0 /\ b.sq[sq_of(tf - 1, r)] = pawn
           \/ tf + 1 < 8 /\ b.sq[sq_of(tf + 1, r)] = pawn
     \/ \E i \in 1..Len(KNIGHT_STEPS[target]) :
           LET p == b.sq[KNIGHT_STEPS[target][i]]
           IN p # 0 /\ abs_piece(p) = KNIGHT /\ color_of(p) = by
     \/ \E i \in 1..Len(KING_STEPS[target]) :
           LET p == b.sq[KING_STEPS[target][i]]
           IN p # 0 /\ abs_piece(p) = KING /\ color_of(p) = by
     \/ \E i \in 1..4 : RayHit(b, tf + dR[i][1], tr + dR[i][2], dR[i][1], dR[i][2], by, {ROOK, QUEEN})
     \/ \E i \in 1..4 : RayHit(b, tf + dB[i][1], tr + dB[i][2], dB[i][1], dB[i][2], by, {BISHOP, QUEEN})

Board_in_check(b, c) ==
  LET ksq == find_king(b, c)
  IN IF ksq < 0 THEN FALSE ELSE is_square_attacked(b, ksq, Opp(c))

\* capturing a rook on a corner leaves the corner's right
update_castling_rights_on_moveNoCapture(castling, from, to, moved, captured) ==
  LET c1 == IF abs_piece(moved) = KING
            THEN (IF color_of(moved) = WHITE THEN ClearBit(ClearBit(castling, 1), 2)
                                             ELSE ClearBit(ClearBit(castling, 4), 8))
            ELSE castling
      corner(c, s) == CASE s = 0 -> ClearBit(c, 2) [] s = 7 -> ClearBit(c, 1)
                        [] s = 56 -> ClearBit(c, 8) [] s = 63 -> ClearBit(c, 4) [] OTHER -> c
  IN IF abs_piece(moved) = ROOK THEN corner(c1, from) ELSE c1

update_castling_rights_on_move(castling, from, to, moved, captured) ==
  LET c1 == IF abs_piece(moved) = KING
            THEN (IF color_of(moved) = WHITE THEN ClearBit(ClearBit(castling, 1), 2)
                                             ELSE ClearBit(ClearBit(castling, 4), 8))
            ELSE castling
      corner(c, s) == CASE s = 0 -> ClearBit(c, 2) [] s = 7 -> ClearBit(c, 1)
                        [] s = 56 -> ClearBit(c, 8) [] s = 63 -> ClearBit(c, 4) [] OTHER -> c
      c2 == IF abs_piece(moved) = ROOK THEN corner(c1, from) ELSE c1
  IN IF captured # 0 /\ abs_piece(captured) = ROOK THEN corner(c2, to) ELSE c2

add_promotion_moves(from, to, baseFlags) ==
  LET fl == IF HasBit(baseFlags, PROMO) THEN baseFlags ELSE baseFlags + PROMO
  IN <<Move(from, to, QUEEN, fl), Move(from, to, ROOK, fl),
       Move(from, to, BISHOP, fl), Move(from, to, KNIGHT, fl)>>

\* gen_pseudo_legal, the moves of the pawn on from
PawnMoves(b, from) ==
  LET us == b.side
      them == Opp(us)
      white == us = WHITE
      one == IF white THEN from + 8 ELSE from - 8
      two == IF white THEN from + 16 ELSE from - 16
      last == IF white THEN 7 ELSE 0
      home == IF white THEN 1 ELSE 6
      push == IF one < 64 /\ one >= 0 /\ b.sq[one] = 0
              THEN IF rank_of(one) = last THEN add_promotion_moves(from, one, 0)
                   ELSE <<Move(from, one, EMPTY, 0)>>
                        \o (IF rank_of(from) = home /\ b.sq[two] = 0
                            THEN <<Move(from, two, EMPTY, DOUBLEP)>> ELSE << >>)
              ELSE << >>
      att == PAWN_ATTACKS[us][from]
      take(to) == (IF b.sq[to] # 0 /\ color_of(b.sq[to]) = them
                   THEN IF rank_of(to) = last THEN add_promotion_moves(from, to, CAPTURE)
                        ELSE <<Move(from, to, EMPTY, CAPTURE)>>
                   ELSE << >>)
                  \o (IF to = b.ep THEN <<Move(from, to, EMPTY, ENPASSANT + CAPTURE)>> ELSE << >>)
  IN push \o Concat([i \in 1..Len(att) |-> take(att[i])])

\* the moves of a knight or a king on from to the squares of steps
StepMoves(b, from, steps) ==
  LET them == Opp(b.side)
      step(to) == IF b.sq[to] = 0 THEN <<Move(from, to, EMPTY, 0)>>
                  ELSE IF color_of(b.sq[to]) = them THEN <<Move(from, to, EMPTY, CAPTURE)>>
                  ELSE << >>
  IN Concat([i \in 1..Len(steps) |-> step(steps[i])])

\* the lambda slide of gen_pseudo_legal
RECURSIVE slide(_, _, _, _, _, _)
slide(b, from, nf, nr, df, dr) ==
  IF ~on_board(nf, nr) THEN << >>
  ELSE LET to == sq_of(nf, nr)
       IN IF b.sq[to] = 0
          THEN <<Move(from, to, EMPTY, 0)>> \o slide(b, from, nf + df, nr + dr, df, dr)
          ELSE IF color_of(b.sq[to]) = Opp(b.side) THEN <<Move(from, to, EMPTY, CAPTURE)>>
          ELSE << >>

SliderMoves(b, from, pt) ==
  LET f == file_of(from)
      r == rank_of(from)
      along(d) == Concat([i \in 1..4 |-> slide(b, from, f + d[i][1], r + d[i][2], d[i][1], d[i][2])])
  IN (IF pt \in {BISHOP, QUEEN} THEN along(dB) ELSE << >>)
     \o (IF pt \in {ROOK, QUEEN} THEN along(dR) ELSE << >>)

\* the four castling moves of gen_pseudo_legal, in the order of the code:
\* the right, the squares that must be empty, the rook's corner, the squares
\* that must not be attacked, the rook, the king's move
CastleTable ==
  <<[side |-> WHITE, right |-> 1, empties |-> {5, 6}, corner |-> 7, safe |-> {5, 6}, rook |-> ROOK,
     from |-> 4, to |-> 6],
    [side |-> WHITE, right |-> 2, empties |-> {3, 2, 1}, corner |-> 0, safe |-> {3, 2}, rook |-> ROOK,
     from |-> 4, to |-> 2],
    [side |-> BLACK, right |-> 4, empties |-> {61, 62}, corner |-> 63, safe |-> {61, 62}, rook |-> -ROOK,
     from |-> 60, to |-> 62],
    [side |-> BLACK, right |-> 8, empties |-> {59, 58, 57}, corner |-> 56, safe |-> {59, 58}, rook |-> -ROOK,
     from |-> 60, to |-> 58]>>

\* the conditions of one castling move, without the test of the king's transit
CastleGuardNoTransit(b, c) ==
  /\ HasBit(b.castling, c.right)
  /\ \A s \in c.empties : b.sq[s] = 0
  /\ b.sq[c.corner] = c.rook
  /\ \A s \in c.safe \ {3, 5, 59, 61} : ~is_square_attacked(b, s, Opp(b.side))

\* the conditions of one castling move
CastleGuard(b, c) ==
  /\ HasBit(b.castling, c.right)
  /\ \A s \in c.empties : b.sq[s] = 0
  /\ b.sq[c.corner] = c.rook
  /\ \A s \in c.safe : ~is_square_attacked(b, s, Opp(b.side))

CastleMoves(b) ==
  IF Board_in_check(b, b.side) THEN << >>
  ELSE Concat([i \in 1..4 |->
                 IF CastleTable[i].side = b.side /\ CastleGuard(b, CastleTable[i])
                 THEN <<Move(CastleTable[i].from, CastleTable[i].to, EMPTY, CASTLE)>>
                 ELSE << >>])

MovesFrom(b, from) ==
  LET p == b.sq[from]
      pt == abs_piece(p)
  IN IF p = 0 \/ color_of(p) # b.side THEN << >>
     ELSE CASE pt = PAWN -> PawnMoves(b, from)
            [] pt = KNIGHT -> StepMoves(b, from, KNIGHT_STEPS[from])
            [] pt \in {BISHOP, ROOK, QUEEN} -> SliderMoves(b, from, pt)
            [] pt = KING -> StepMoves(b, from, KING_STEPS[from]) \o CastleMoves(b)

gen_pseudo_legal(b) ==
  Concat([r \in 1..8 |-> Concat([f \in 1..8 |-> MovesFrom(b, sq_of(f - 1, r - 1))])])

\* Undo, as make_move fills it
Undo(b, m) ==
  [captured |-> b.sq[m.to], castling |-> b.castling, ep |-> b.ep, halfmove |-> b.halfmove,
   fullmove |-> b.fullmove, ep_cap_sq |-> -1, ep_cap_piece |-> 0, key |-> b.key]

\* Board::make_move: [board, u]
Board_make_move(b, m) ==
  LET moved == b.sq[m.from]
      isEp == HasBit(m.flags, ENPASSANT)
      capSq == IF b.side = WHITE THEN m.to - 8 ELSE m.to + 8
      u == IF isEp THEN [Undo(b, m) EXCEPT !.ep_cap_sq = capSq, !.ep_cap_piece = b.sq[capSq]]
           ELSE Undo(b, m)
      captured == IF isEp THEN u.ep_cap_piece ELSE b.sq[m.to]
      k0 == XorAll(b.key, <<Z_CASTLE(b.castling % 16)>>
                          \o (IF b.ep # -1 THEN <<Z_EPFILE(file_of(b.ep))>> ELSE << >>)
                          \o <<Z_PIECE(pidx(moved), m.from)>>
                          \o (IF isEp THEN <<Z_PIECE(pidx(u.ep_cap_piece), capSq)>>
                              ELSE IF captured # 0 THEN <<Z_PIECE(pidx(captured), m.to)>> ELSE << >>))
      sq0 == IF isEp THEN [b.sq EXCEPT ![capSq] = 0] ELSE b.sq
      sq1 == [[sq0 EXCEPT ![m.to] = moved] EXCEPT ![m.from] = 0]
      prom == IF b.side = WHITE THEN m.promo ELSE -m.promo
      sq2 == IF m.promo # EMPTY THEN [sq1 EXCEPT ![m.to] = prom] ELSE sq1
      k1 == Xor(k0, IF m.promo # EMPTY THEN Z_PIECE(pidx(prom), m.to) ELSE Z_PIECE(pidx(moved), m.to))
      rookFrom == CASE m.to = 6 -> 7 [] m.to = 2 -> 0 [] m.to = 62 -> 63 [] m.to = 58 -> 56 [] OTHER -> -1
      rookTo == CASE m.to = 6 -> 5 [] m.to = 2 -> 3 [] m.to = 62 -> 61 [] m.to = 58 -> 59 [] OTHER -> -1
      castles == HasBit(m.flags, CASTLE) /\ rookFrom # -1
      rook == IF castles THEN sq2[rookFrom] ELSE 0
      sq3 == IF castles THEN [[sq2 EXCEPT ![rookTo] = rook] EXCEPT ![rookFrom] = 0] ELSE sq2
      k2 == IF castles THEN XorAll(k1, <<Z_PIECE(pidx(rook), rookFrom), Z_PIECE(pidx(rook), rookTo)>>)
            ELSE k1
      castling == update_castling_rights_on_move(b.castling, m.from, m.to, moved, captured)
      ep == IF HasBit(m.flags, DOUBLEP)
            THEN (IF b.side = WHITE THEN m.from + 8 ELSE m.from - 8) ELSE -1
      k3 == XorAll(k2, <<Z_CASTLE(castling % 16)>>
                       \o (IF ep # -1 THEN <<Z_EPFILE(file_of(ep))>> ELSE << >>)
                       \o <<Z_SIDE>>)
  IN [u |-> u,
      board |-> [sq |-> sq3,
                 side |-> Opp(b.side),
                 castling |-> castling,
                 ep |-> ep,
                 halfmove |-> IF abs_piece(moved) = PAWN \/ HasBit(m.flags, CAPTURE)
                              THEN 0 ELSE b.halfmove + 1,
                 fullmove |-> IF b.side = BLACK THEN b.fullmove + 1 ELSE b.fullmove,
                 key |-> k3,
                 key_hist |-> Append(b.key_hist, k3)]]

\* Board::unmake_move without the restoring of the en-passant victim
Board_unmake_moveNoVictim(b, m, u) ==
  LET side == Opp(b.side)
      rookFrom == CASE m.to = 6 -> 7 [] m.to = 2 -> 0 [] m.to = 62 -> 63 [] m.to = 58 -> 56 [] OTHER -> -1
      rookTo == CASE m.to = 6 -> 5 [] m.to = 2 -> 3 [] m.to = 62 -> 61 [] m.to = 58 -> 59 [] OTHER -> -1
      castles == HasBit(m.flags, CASTLE) /\ rookFrom # -1
      sq0 == IF castles THEN [[b.sq EXCEPT ![rookFrom] = b.sq[rookTo]] EXCEPT ![rookTo] = 0] ELSE b.sq
      movedBack == IF m.promo # EMPTY THEN (IF side = WHITE THEN PAWN ELSE -PAWN) ELSE sq0[m.to]
      sq1 == [[sq0 EXCEPT ![m.from] = movedBack] EXCEPT ![m.to] = u.captured]
  IN [sq |-> sq1, side |-> side, castling |-> u.castling, ep |-> u.ep,
      halfmove |-> u.halfmove, fullmove |-> u.fullmove, key |-> u.key,
      key_hist |-> SubSeq(b.key_hist, 1, Len(b.key_hist) - 1)]

\* Board::unmake_move
Board_unmake_move(b, m, u) ==
  LET side == Opp(b.side)
      rookFrom == CASE m.to = 6 -> 7 [] m.to = 2 -> 0 [] m.to = 62 -> 63 [] m.to = 58 -> 56 [] OTHER -> -1
      rookTo == CASE m.to = 6 -> 5 [] m.to = 2 -> 3 [] m.to = 62 -> 61 [] m.to = 58 -> 59 [] OTHER -> -1
      castles == HasBit(m.flags, CASTLE) /\ rookFrom # -1
      sq0 == IF castles THEN [[b.sq EXCEPT ![rookFrom] = b.sq[rookTo]] EXCEPT ![rookTo] = 0] ELSE b.sq
      movedBack == IF m.promo # EMPTY THEN (IF side = WHITE THEN PAWN ELSE -PAWN) ELSE sq0[m.to]
      sq1 == [[sq0 EXCEPT ![m.from] = movedBack] EXCEPT ![m.to] = u.captured]
      sq2 == IF HasBit(m.flags, ENPASSANT)
             THEN [[sq1 EXCEPT ![m.to] = 0] EXCEPT ![u.ep_cap_sq] = u.ep_cap_piece] ELSE sq1
  IN [sq |-> sq2, side |-> side, castling |-> u.castling, ep |-> u.ep,
      halfmove |-> u.halfmove, fullmove |-> u.fullmove, key |-> u.key,
      key_hist |-> SubSeq(b.key_hist, 1, Len(b.key_hist) - 1)]

\* gen_legal, one turn of the loop: made is make_move(m) on b
TryMove(b, m, made) ==
  [out |-> IF ~Board_in_check(made.board, b.side) THEN <<m>> ELSE << >>,
   board |-> Board_unmake_move(made.board, m, made.u)]

\* gen_legal, the loop over the pseudo-legal moves lo..hi: every move is
\* tried on the board the moves before it left.  [out, board]
RECURSIVE LegalLoop(_, _, _, _)
RECURSIVE LegalJoin(_, _, _, _)
LegalLoop(b, pseudo, lo, hi) ==
  IF lo > hi THEN [out |-> << >>, board |-> b]
  ELSE IF lo = hi THEN TryMove(b, pseudo[lo], Board_make_move(b, pseudo[lo]))
  ELSE LegalJoin(LegalLoop(b, pseudo, lo, (lo + hi) \div 2), pseudo, (lo + hi) \div 2 + 1, hi)

\* the turns after the first ones, on the board these left
LegalJoin(first, pseudo, lo, hi) ==
  LET rest == LegalLoop(first.board, pseudo, lo, hi)
  IN [out |-> first.out \o rest.out, board |-> rest.board]

LegalAll(b, pseudo) == LegalLoop(b, pseudo, 1, Len(pseudo))

\* Board::gen_legal without the test of the king
Board_gen_legalNoFilter(b) == [out |-> gen_pseudo_legal(b), board |-> b]

\* Board::gen_legal: [out, board], the moves and the board after the call
Board_gen_legal(b) == LegalAll(b, gen_pseudo_legal(b))

\* the starting position
\*   rnbqkbnr/pppppppp/8/8/8/8/PPPPPPPP/RNBQKBNR w KQkq - 0 1
START_FEN ==
  [fields |-> 6,
   placement |-> <<"r", "n", "b", "q", "k", "b", "n", "r", "/", "p", "p", "p", "p", "p", "p", "p", "p", "/", "8", "/", "8", "/", "8", "/", "8", "/", "P", "P", "P", "P", "P", "P", "P", "P", "/", "R", "N", "B", "Q", "K", "B", "N", "R">>,
   stm |-> "w", cast |-> <<"K", "Q", "k", "q">>, eps |-> <<"-">>,
   halfmove |-> [isInt |-> TRUE, val |-> 0], fullmove |-> [isInt |-> TRUE, val |-> 1]]

\* both sides can castle on both wings
\*   r3k2r/8/8/8/8/8/8/R3K2R w KQkq - 0 1
CastleFen ==
  [fields |-> 6,
   placement |-> <<"r", "3", "k", "2", "r", "/", "8", "/", "8", "/", "8", "/", "8", "/", "8", "/", "8", "/", "R", "3", "K", "2", "R">>,
   stm |-> "w", cast |-> <<"K", "Q", "k", "q">>, eps |-> <<"-">>,
   halfmove |-> [isInt |-> TRUE, val |-> 0], fullmove |-> [isInt |-> TRUE, val |-> 1]]

\* the black rook attacks f1: white may castle long only
\*   4k3/8/8/8/8/8/P4r1P/R3K2R w KQ - 0 1
TransitFen ==
  [fields |-> 6,
   placement |-> <<"4", "k", "3", "/", "8", "/", "8", "/", "8", "/", "8", "/", "8", "/", "P", "4", "r", "1", "P", "/", "R", "3", "K", "2", "R">>,
   stm |-> "w", cast |-> <<"K", "Q">>, eps |-> <<"-">>,
   halfmove |-> [isInt |-> TRUE, val |-> 0], fullmove |-> [isInt |-> TRUE, val |-> 1]]

\* white can capture en passant on e6
\*   4k3/8/8/3Pp3/8/8/8/4K3 w - e6 3 2
EnPassantFen ==
  [fields |-> 6,
   placement |-> <<"4", "k", "3", "/", "8", "/", "8", "/", "3", "P", "p", "3", "/", "8", "/", "8", "/", "8", "/", "4", "K", "3">>,
   stm |-> "w", cast |-> <<"-">>, eps |-> <<"e", "6">>,
   halfmove |-> [isInt |-> TRUE, val |-> 3], fullmove |-> [isInt |-> TRUE, val |-> 2]]

\* the a7 pawn promotes on a8 or by capturing on b8
\*   1n2k3/P7/8/8/8/8/8/4K3 w - - 0 1
PromoFen ==
  [fields |-> 6,
   placement |-> <<"1", "n", "2", "k", "3", "/", "P", "7", "/", "8", "/", "8", "/", "8", "/", "8", "/", "8", "/", "4", "K", "3">>,
   stm |-> "w", cast |-> <<"-">>, eps |-> <<"-">>,
   halfmove |-> [isInt |-> TRUE, val |-> 0], fullmove |-> [isInt |-> TRUE, val |-> 1]]

\* the e2 bishop is pinned to the king
\*   4k3/4r3/8/8/8/8/4B3/4K3 w - - 0 1
PinFen ==
  [fields |-> 6,
   placement |-> <<"4", "k", "3", "/", "4", "r", "3", "/", "8", "/", "8", "/", "8", "/", "8", "/", "4", "B", "3", "/", "4", "K", "3">>,
   stm |-> "w", cast |-> <<"-">>, eps |-> <<"-">>,
   halfmove |-> [isInt |-> TRUE, val |-> 0], fullmove |-> [isInt |-> TRUE, val |-> 1]]

\* d7d5 lets white capture en passant
\*   4k3/3p4/8/4P3/8/8/8/4K3 b - - 0 1
DoublePushFen ==
  [fields |-> 6,
   placement |-> <<"4", "k", "3", "/", "3", "p", "4", "/", "8", "/", "4", "P", "3", "/", "8", "/", "8", "/", "8", "/", "4", "K", "3">>,
   stm |-> "b", cast |-> <<"-">>, eps |-> <<"-">>,
   halfmove |-> [isInt |-> TRUE, val |-> 0], fullmove |-> [isInt |-> TRUE, val |-> 1]]

\* white to move, e2e4 is legal and captures exist
\*   r1bqkbnr/pppp1ppp/2n5/4p3/3P4/5N2/PPP1PPPP/RNBQKB1R w KQkq - 2 3
MiddleFen ==
  [fields |-> 6,
   placement |-> <<"r", "1", "b", "q", "k", "b", "n", "r", "/", "p", "p", "p", "p", "1", "p", "p", "p", "/", "2", "n", "5", "/", "4", "p", "3", "/", "3", "P", "4", "/", "5", "N", "2", "/", "P", "P", "P", "1", "P", "P", "P", "P", "/", "R", "N", "B", "Q", "K", "B", "1", "R">>,
   stm |-> "w", cast |-> <<"K", "Q", "k", "q">>, eps |-> <<"-">>,
   halfmove |-> [isInt |-> TRUE, val |-> 2], fullmove |-> [isInt |-> TRUE, val |-> 3]]

\* nine pawns on one rank: the placement overflows the rank
\*   ppppppppp/8/8/8/8/8/8/8 w - - 0 1
OverflowFen ==
  [fields |-> 6,
   placement |-> <<"p", "p", "p", "p", "p", "p", "p", "p", "p", "/", "8", "/", "8", "/", "8", "/", "8", "/", "8", "/", "8", "/", "8">>,
   stm |-> "w", cast |-> <<"-">>, eps |-> <<"-">>,
   halfmove |-> [isInt |-> TRUE, val |-> 0], fullmove |-> [isInt |-> TRUE, val |-> 1]]

\* four fields only
\*   8/8/8/8/8/8/8/8 w - -
ShortFen ==
  [fields |-> 4,
   placement |-> <<"8", "/", "8", "/", "8", "/", "8", "/", "8", "/", "8", "/", "8", "/", "8">>,
   stm |-> "w", cast |-> <<"-">>, eps |-> <<"-">>,
   halfmove |-> [isInt |-> FALSE, val |-> 0], fullmove |-> [isInt |-> FALSE, val |-> 0]]

\* opening_book_table
opening_book_entries ==
  <<
     [key |-> <<>>,
      candidates |-> <<[uci |-> <<"e", "2", "e", "4">>, weight |-> 60], [uci |-> <<"d", "2", "d", "4">>, weight |-> 40]>>],
     [key |-> <<"e", "2", "e", "4">>,
      candidates |-> <<[uci |-> <<"c", "7", "c", "6">>, weight |-> 40], [uci |-> <<"e", "7", "e", "5">>, weight |-> 35], [uci |-> <<"c", "7", "c", "5">>, weight |-> 25]>>],
     [key |-> <<"e", "2", "e", "4", " ", "c", "7", "c", "6">>,
      candidates |-> <<[uci |-> <<"d", "2", "d", "4">>, weight |-> 60], [uci |-> <<"g", "1", "f", "3">>, weight |-> 40]>>],
     [key |-> <<"e", "2", "e", "4", " ", "c", "7", "c", "6", " ", "d", "2", "d", "4">>,
      candidates |-> <<[uci |-> <<"d", "7", "d", "5">>, weight |-> 85], [uci |-> <<"g", "8", "f", "6">>, weight |-> 15]>>],
     [key |-> <<"e", "2", "e", "4", " ", "c", "7", "c", "6", " ", "d", "2", "d", "4", " ", "d", "7", "d", "5">>,
      candidates |-> <<[uci |-> <<"e", "4", "e", "5">>, weight |-> 100]>>],
     [key |-> <<"e", "2", "e", "4", " ", "c", "7", "c", "6", " ", "d", "2", "d", "4", " ", "d", "7", "d", "5", " ", "e", "4", "e", "5">>,
      candidates |-> <<[uci |-> <<"c", "8", "f", "5">>, weight |-> 55], [uci |-> <<"c", "8", "g", "4">>, weight |-> 45]>>],
     [key |-> <<"e", "2", "e", "4", " ", "c", "7", "c", "6", " ", "d", "2", "d", "4", " ", "d", "7", "d", "5", " ", "e", "4", "e", "5", " ", "c", "8", "f", "5">>,
      candidates |-> <<[uci |-> <<"g", "1", "f", "3">>, weight |-> 100]>>],
     [key |-> <<"e", "2", "e", "4", " ", "c", "7", "c", "6", " ", "d", "2", "d", "4", " ", "d", "7", "d", "5", " ", "e", "4", "e", "5", " ", "c", "8", "f", "5", " ", "g", "1", "f", "3">>,
      candidates |-> <<[uci |-> <<"e", "7", "e", "6">>, weight |-> 60], [uci |-> <<"e", "7", "e", "5">>, weight |-> 40]>>],
     [key |-> <<"e", "2", "e", "4", " ", "e", "7", "e", "5">>,
      candidates |-> <<[uci |-> <<"g", "1", "f", "3">>, weight |-> 100]>>],
     [key |-> <<"e", "2", "e", "4", " ", "e", "7", "e", "5", " ", "g", "1", "f", "3">>,
      candidates |-> <<[uci |-> <<"b", "8", "c", "6">>, weight |-> 80], [uci |-> <<"g", "8", "f", "6">>, weight |-> 20]>>],
     [key |-> <<"e", "2", "e", "4", " ", "e", "7", "e", "5", " ", "g", "1", "f", "3", " ", "b", "8", "c", "6">>,
      candidates |-> <<[uci |-> <<"f", "1", "c", "4">>, weight |-> 90], [uci |-> <<"d", "2", "d", "4">>, weight |-> 10]>>],
     [key |-> <<"e", "2", "e", "4", " ", "e", "7", "e", "5", " ", "g", "1", "f", "3", " ", "b", "8", "c", "6", " ", "f", "1", "c", "4">>,
      candidates |-> <<[uci |-> <<"g", "8", "f", "6">>, weight |-> 65], [uci |-> <<"f", "8", "c", "5">>, weight |-> 35]>>],
     [key |-> <<"e", "2", "e", "4", " ", "e", "7", "e", "5", " ", "g", "1", "f", "3", " ", "b", "8", "c", "6", " ", "f", "1", "c", "4", " ", "g", "8", "f", "6">>,
      candidates |-> <<[uci |-> <<"d", "2", "d", "3">>, weight |-> 50], [uci |-> <<"d", "2", "d", "4">>, weight |-> 50]>>],
     [key |-> <<"e", "2", "e", "4", " ", "e", "7", "e", "5", " ", "g", "1", "f", "3", " ", "b", "8", "c", "6", " ", "f", "1", "c", "4", " ", "f", "8", "c", "5">>,
      candidates |-> <<[uci |-> <<"c", "2", "c", "3">>, weight |-> 60], [uci |-> <<"d", "2", "d", "3">>, weight |-> 40]>>],
     [key |-> <<"e", "2", "e", "4", " ", "c", "7", "c", "5">>,
      candidates |-> <<[uci |-> <<"g", "1", "f", "3">>, weight |-> 55], [uci |-> <<"c", "2", "c", "3">>, weight |-> 45]>>],
     [key |-> <<"e", "2", "e", "4", " ", "c", "7", "c", "5", " ", "g", "1", "f", "3">>,
      candidates |-> <<[uci |-> <<"d", "7", "d", "6">>, weight |-> 60], [uci |-> <<"b", "8", "c", "6">>, weight |-> 40]>>],
     [key |-> <<"e", "2", "e", "4", " ", "c", "7", "c", "5", " ", "c", "2", "c", "3">>,
      candidates |-> <<[uci |-> <<"d", "7", "d", "5">>, weight |-> 70], [uci |-> <<"g", "8", "f", "6">>, weight |-> 30]>>],
     [key |-> <<"d", "2", "d", "4">>,
      candidates |-> <<[uci |-> <<"d", "7", "d", "5">>, weight |-> 80], [uci |-> <<"g", "8", "f", "6">>, weight |-> 20]>>],
     [key |-> <<"d", "2", "d", "4", " ", "d", "7", "d", "5">>,
      candidates |-> <<[uci |-> <<"c", "2", "c", "4">>, weight |-> 75], [uci |-> <<"g", "1", "f", "3">>, weight |-> 25]>>],
     [key |-> <<"d", "2", "d", "4", " ", "d", "7", "d", "5", " ", "c", "2", "c", "4">>,
      candidates |-> <<[uci |-> <<"e", "7", "e", "6">>, weight |-> 70], [uci |-> <<"c", "7", "c", "6">>, weight |-> 30]>>],
     [key |-> <<"d", "2", "d", "4", " ", "d", "7", "d", "5", " ", "c", "2", "c", "4", " ", "e", "7", "e", "6">>,
      candidates |-> <<[uci |-> <<"b", "1", "c", "3">>, weight |-> 55], [uci |-> <<"g", "1", "f", "3">>, weight |-> 45]>>],
     [key |-> <<"d", "2", "d", "4", " ", "d", "7", "d", "5", " ", "c", "2", "c", "4", " ", "e", "7", "e", "6", " ", "b", "1", "c", "3">>,
      candidates |-> <<[uci |-> <<"g", "8", "f", "6">>, weight |-> 80], [uci |-> <<"f", "8", "e", "7">>, weight |-> 20]>>],
     [key |-> <<"d", "2", "d", "4", " ", "d", "7", "d", "5", " ", "c", "2", "c", "4", " ", "c", "7", "c", "6">>,
      candidates |-> <<[uci |-> <<"b", "1", "c", "3">>, weight |-> 60], [uci |-> <<"g", "1", "f", "3">>, weight |-> 40]>>],
     [key |-> <<"d", "2", "d", "4", " ", "d", "7", "d", "5", " ", "c", "2", "c", "4", " ", "c", "7", "c", "6", " ", "b", "1", "c", "3">>,
      candidates |-> <<[uci |-> <<"g", "8", "f", "6">>, weight |-> 100]>>],
     [key |-> <<"d", "2", "d", "4", " ", "g", "8", "f", "6">>,
      candidates |-> <<[uci |-> <<"c", "2", "c", "4">>, weight |-> 80], [uci |-> <<"g", "1", "f", "3">>, weight |-> 20]>>],
     [key |-> <<"d", "2", "d", "4", " ", "g", "8", "f", "6", " ", "c", "2", "c", "4">>,
      candidates |-> <<[uci |-> <<"e", "7", "e", "6">>, weight |-> 70], [uci |-> <<"g", "7", "g", "6">>, weight |-> 30]>>],
     [key |-> <<"d", "2", "d", "4", " ", "g", "8", "f", "6", " ", "c", "2", "c", "4", " ", "e", "7", "e", "6">>,
      candidates |-> <<[uci |-> <<"g", "1", "f", "3">>, weight |-> 60], [uci |-> <<"b", "1", "c", "3">>, weight |-> 40]>>],
     [key |-> <<"d", "2", "d", "4", " ", "g", "8", "f", "6", " ", "c", "2", "c", "4", " ", "e", "7", "e", "6", " ", "g", "1", "f", "3">>,
      candidates |-> <<[uci |-> <<"d", "7", "d", "5">>, weight |-> 75], [uci |-> <<"b", "7", "b", "6">>, weight |-> 25]>>],
     [key |-> <<"c", "2", "c", "4">>,
      candidates |-> <<[uci |-> <<"e", "7", "e", "5">>, weight |-> 40], [uci |-> <<"e", "7", "e", "6">>, weight |-> 35], [uci |-> <<"c", "7", "c", "5">>, weight |-> 25]>>],
     [key |-> <<"c", "2", "c", "4", " ", "e", "7", "e", "6">>,
      candidates |-> <<[uci |-> <<"d", "2", "d", "4">>, weight |-> 80], [uci |-> <<"g", "1", "f", "3">>, weight |-> 20]>>],
     [key |-> <<"c", "2", "c", "4", " ", "e", "7", "e", "6", " ", "d", "2", "d", "4">>,
      candidates |-> <<[uci |-> <<"d", "7", "d", "5">>, weight |-> 75], [uci |-> <<"g", "8", "f", "6">>, weight |-> 25]>>],
     [key |-> <<"c", "2", "c", "4", " ", "e", "7", "e", "6", " ", "d", "2", "d", "4", " ", "d", "7", "d", "5">>,
      candidates |-> <<[uci |-> <<"b", "1", "c", "3">>, weight |-> 55], [uci |-> <<"g", "1", "f", "3">>, weight |-> 45]>>],
     [key |-> <<"e", "2", "e", "4", " ", "e", "7", "e", "5", " ", "g", "1", "f", "3", " ", "b", "8", "c", "6", " ", "f", "1", "c", "4", " ", "g", "8", "f", "6", " ", "d", "2", "d", "3">>,
      candidates |-> <<[uci |-> <<"f", "8", "c", "5">>, weight |-> 70], [uci |-> <<"h", "7", "h", "6">>, weight |-> 30]>>],
     [key |-> <<"e", "2", "e", "4", " ", "e", "7", "e", "5", " ", "g", "1", "f", "3", " ", "b", "8", "c", "6", " ", "f", "1", "c", "4", " ", "g", "8", "f", "6", " ", "d", "2", "d", "4">>,
      candidates |-> <<[uci |-> <<"e", "5", "d", "4">>, weight |-> 85], [uci |-> <<"f", "8", "c", "5">>, weight |-> 15]>>],
     [key |-> <<"e", "2", "e", "4", " ", "c", "7", "c", "6", " ", "d", "2", "d", "4", " ", "d", "7", "d", "5", " ", "e", "4", "e", "5", " ", "c", "8", "g", "4">>,
      candidates |-> <<[uci |-> <<"f", "1", "e", "2">>, weight |-> 65], [uci |-> <<"g", "1", "f", "3">>, weight |-> 35]>>],
     [key |-> <<"e", "2", "e", "4", " ", "c", "7", "c", "6", " ", "d", "2", "d", "4", " ", "d", "7", "d", "5", " ", "e", "4", "e", "5", " ", "c", "8", "g", "4", " ", "f", "1", "e", "2">>,
      candidates |-> <<[uci |-> <<"g", "4", "e", "2">>, weight |-> 100]>>],
     [key |-> <<"g", "1", "f", "3">>,
      candidates |-> <<[uci |-> <<"d", "7", "d", "5">>, weight |-> 50], [uci |-> <<"g", "8", "f", "6">>, weight |-> 50]>>],
     [key |-> <<"g", "1", "f", "3", " ", "d", "7", "d", "5">>,
      candidates |-> <<[uci |-> <<"d", "2", "d", "4">>, weight |-> 65], [uci |-> <<"c", "2", "c", "4">>, weight |-> 35]>>],
     [key |-> <<"g", "1", "f", "3", " ", "g", "8", "f", "6">>,
      candidates |-> <<[uci |-> <<"d", "2", "d", "4">>, weight |-> 60], [uci |-> <<"c", "2", "c", "4">>, weight |-> 40]>>],
     [key |-> <<"d", "2", "d", "4", " ", "d", "7", "d", "5", " ", "g", "1", "f", "3">>,
      candidates |-> <<[uci |-> <<"g", "8", "f", "6">>, weight |-> 70], [uci |-> <<"e", "7", "e", "6">>, weight |-> 30]>>],
     [key |-> <<"d", "2", "d", "4", " ", "d", "7", "d", "5", " ", "g", "1", "f", "3", " ", "g", "8", "f", "6">>,
      candidates |-> <<[uci |-> <<"c", "2", "c", "4">>, weight |-> 80], [uci |-> <<"e", "2", "e", "3">>, weight |-> 20]>>]
  >>

\* perft: the positions the perftfen command line is given
PerftFens == {TransitFen, EnPassantFen, PromoFen, PinFen, DoublePushFen, OverflowFen}

\* the text of a move, by its characters
Uci(a, b, c, d) == <<a, b, c, d>>

\* apply_uci_move, the loop over the legal moves g.out: [ok, board]
ApplyFound(g, from, to, promo) ==
  LET hit == {i \in 1..Len(g.out) :
                /\ g.out[i].from = from /\ g.out[i].to = to
                /\ \/ g.out[i].promo = EMPTY /\ promo = EMPTY
                   \/ g.out[i].promo # EMPTY /\ g.out[i].promo = promo}
  IN IF hit = {} THEN [ok |-> FALSE, board |-> g.board]
     ELSE [ok |-> TRUE,
           board |-> Board_make_move(g.board, g.out[CHOOSE i \in hit : \A j \in hit : i <= j]).board]

\* apply_uci_move: [ok, board]
apply_uci_move_board(b, uci) ==
  IF Len(uci) < 4 THEN [ok |-> FALSE, board |-> b]
  ELSE ApplyFound(Board_gen_legal(b), str_to_sq(SubSeq(uci, 1, 2)), str_to_sq(SubSeq(uci, 3, 4)),
                  IF Len(uci) = 5 THEN char_to_promo(uci[5]) ELSE EMPTY)

\* uci_position, the loop over the move tokens: a move that is not applied
\* is not recorded
RECURSIVE ReplayMovesBoard(_, _, _)
RECURSIVE ReplayNext(_, _, _)
ReplayMovesBoard(b, hist, moves) ==
  IF moves = << >> THEN [board |-> b, move_history |-> hist]
  ELSE ReplayNext(apply_uci_move_board(b, Head(moves)), hist, moves)

ReplayNext(a, hist, moves) ==
  IF a.ok THEN ReplayMovesBoard(a.board, Append(hist, Head(moves)), Tail(moves))
  ELSE ReplayMovesBoard(a.board, hist, Tail(moves))

\* uci_position on "position startpos [moves ...]" and "position fen <fen> [moves ...]"
uci_position_board(b, hist, cmd) ==
  IF cmd.kind = "fen" /\ cmd.fen.fields < 6 THEN [board |-> b, move_history |-> << >>]
  ELSE ReplayMovesBoard(Board_set_fen(b, IF cmd.kind = "startpos" THEN START_FEN ELSE cmd.fen).board,
                        << >>, cmd.moves)

has_critical_tactics_boardNoCaptures(b, legal) == Board_in_check(b, b.side)

has_critical_tactics_board(b, legal) ==
  \/ Board_in_check(b, b.side)
  \/ \E i \in 1..Len(legal) : HasBit(legal[i].flags, CAPTURE) \/ legal[i].promo # EMPTY

is_early_queen_move_uci_text(uci, ply) ==
  IF ply > 6 \/ Len(uci) < 2 THEN FALSE
  ELSE SubSeq(uci, 1, 2) \in {<<"d", "1">>, <<"d", "8">>}

\* move_keeps_king_safe: [safe, board]; made is make_move(m) on b
KeepsSafe(b, m, made) ==
  [safe |-> ~Board_in_check(made.board, b.side),
   board |-> Board_unmake_move(made.board, m, made.u)]

move_keeps_king_safe_board(b, m) == KeepsSafe(b, m, Board_make_move(b, m))

RECURSIVE make_key(_)
make_key(moves) ==
  IF moves = << >> THEN << >>
  ELSE IF Len(moves) = 1 THEN moves[1]
  ELSE moves[1] \o <<" ">> \o make_key(Tail(moves))

\* opening_book_pick: the moves the weighted draw can return (empty: nullopt)
opening_book_pick_text(hist, legal_uci) ==
  LET key == make_key(hist)
      found == {i \in 1..Len(opening_book_entries) : opening_book_entries[i].key = key}
  IN IF found = {} THEN {}
     ELSE LET cands == opening_book_entries[CHOOSE i \in found : TRUE].candidates
          IN {cands[i].uci : i \in {j \in 1..Len(cands) :
                                      /\ cands[j].weight > 0
                                      /\ \E k \in 1..Len(legal_uci) : legal_uci[k] = cands[j].uci}}

NoMoveText == <<"0", "0", "0", "0">>

\* main, "go", the conditions on the book move bk after the gate: it is legal,
\* is not an early queen move, and keeps the king safe
BookMoveValid(b, legal, legal_uci, ply, bk) ==
  /\ \E i \in 1..Len(legal) : legal_uci[i] = bk
  /\ ~is_early_queen_move_uci_text(bk, ply)
  /\ move_keeps_king_safe_board(
        b, legal[CHOOSE i \in 1..Len(legal) : legal_uci[i] = bk /\ \A j \in 1..(i - 1) : legal_uci[j] # bk]).safe

\* main, "go", after the book was asked: the (bookhit, bestmove) pairs the
\* engine can print.  hits are the book moves that pass, misses the book
\* moves that do not; the move the search returns is some root move.
GoPrint(legal_uci, book, gate, hits) ==
  {[bookhit |-> TRUE, bestmove |-> bk] : bk \in (IF gate THEN hits ELSE {})}
    \cup (IF book = {} \/ ~gate \/ hits # book
          THEN {[bookhit |-> FALSE, bestmove |-> mv] :
                  mv \in (IF legal_uci = << >> THEN {NoMoveText}
                          ELSE {legal_uci[i] : i \in 1..Len(legal_uci)})}
          ELSE {})

\* main, "go", with the legal moves and their texts
GoLegal(b, legal, legal_uci, hist, book) ==
  GoPrint(legal_uci, book,
          Len(hist) <= BOOK_MAX_PLIES /\ ~has_critical_tactics_board(b, legal),
          {bk \in book : BookMoveValid(b, legal, legal_uci, Len(hist), bk)})

GoTexts(b, legal, legal_uci, hist) ==
  GoLegal(b, legal, legal_uci, hist, opening_book_pick_text(hist, legal_uci))

\* main, "go": [out, board], what the engine can print and the board it leaves
GoGen(g, hist) ==
  [out |-> GoTexts(g.board, g.out, [i \in 1..Len(g.out) |-> move_to_uci(g.out[i])], hist),
   board |-> g.board]

GoBoard(b, hist) == GoGen(Board_gen_legal(b), hist)

\* the position commands the engine is sent
PositionCmd(kind, fen, moves) == [kind |-> kind, fen |-> fen, moves |-> moves]

QgdLine == <<Uci("d", "2", "d", "4"), Uci("d", "7", "d", "5"), Uci("c", "2", "c", "4")>>

PositionCmds ==
  {PositionCmd("startpos", START_FEN, << >>),
   PositionCmd("startpos", START_FEN, <<Uci("e", "2", "e", "5"), Uci("e", "2", "e", "4")>>),
   PositionCmd("startpos", START_FEN, QgdLine),
   PositionCmd("fen", MiddleFen, << >>),
   PositionCmd("fen", CastleFen, <<Uci("e", "1", "g", "1")>>),
   PositionCmd("fen", PromoFen, <<Uci("a", "7", "a", "8")>>),
   PositionCmd("fen", OverflowFen, << >>),
   PositionCmd("fen", ShortFen, << >>)}

\* -------------------------------------------------- the engine by itself
\* the service is not there
ServiceOff ==
  /\ requestStates = [i \in Ids |-> Null]
  /\ state = [r \in Reqs |-> NoState]
  /\ activeRequestId = Null
  /\ currentHashMb = DefaultHashMb
  /\ stockfishReady = FALSE
  /\ waiters = [c \in Clients |-> << >>]
  /\ onLineHandlers = [c \in Clients |-> {}]
  /\ startupError = [c \in Clients |-> FALSE]
  /\ queue = [c \in Clients |-> [tasks |-> << >>, chain |-> "fulfilled"]]
  /\ req = [r \in Reqs |-> NoReq]
  /\ proc = [c \in Clients |-> NoProc]
  /\ clock = NoClock
  /\ statusRes = NoStatus
  /\ startup = "listening"

NoGo == [bookhit |-> FALSE, bestmove |-> << >>]
NoOp == [op |-> "none", m |-> Move(0, 0, EMPTY, 0)]

\* main, UCI mode: Board board; board.set_startpos()
UciInit ==
  /\ mode = "uci"
  /\ board = Board_set_fen(NewBoard, START_FEN).board
  /\ frames = << >>
  /\ move_history = << >>
  /\ goOut = NoGo
  /\ lastOp = [NoOp EXCEPT !.op = "set_fen"]
  /\ nCmds = 0
  /\ ServiceOff
  /\ SearchOff
  /\ UnitOff

\* main, "perftfen <fen> N": Board b; b.set_fen(fen)
PerftInit ==
  /\ mode = "perft"
  /\ \E fen \in PerftFens : board = Board_set_fen(NewBoard, fen).board
  /\ frames = << >>
  /\ move_history = << >>
  /\ goOut = NoGo
  /\ lastOp = [NoOp EXCEPT !.op = "set_fen"]
  /\ nCmds = 0
  /\ ServiceOff
  /\ SearchOff
  /\ UnitOff

\* perft, one turn of the loop: make_move of the legal move m
PerftPush(m, made) ==
  /\ board' = made.board
  /\ frames' = Append(frames, [m |-> m, u |-> made.u, before |-> board])
  /\ lastOp' = [op |-> "make", m |-> m]

PerftLoop(g) == \E i \in 1..Len(g.out) : PerftPush(g.out[i], Board_make_move(g.board, g.out[i]))

\* perft: gen_legal, then make_move of a legal move
PerftMake ==
  /\ mode = "perft"
  /\ Len(frames) < MaxPly
  /\ PerftLoop(Board_gen_legal(board))
  /\ UNCHANGED <<mode, move_history, goOut, nCmds, serviceVars, searchVars, unitVars>>

\* perft, the end of a turn of the loop: unmake_move
PerftUnmake ==
  /\ mode = "perft"
  /\ frames # << >>
  /\ LET top == frames[Len(frames)]
     IN /\ board' = Board_unmake_move(board, top.m, top.u)
        /\ lastOp' = [op |-> "unmake", m |-> top.m]
  /\ frames' = SubSeq(frames, 1, Len(frames) - 1)
  /\ UNCHANGED <<mode, move_history, goOut, nCmds, serviceVars, searchVars, unitVars>>

\* main, "position ...": p is what uci_position leaves
UciPositioned(cmd, p) ==
  /\ board' = p.board
  /\ move_history' = p.move_history
  /\ lastOp' = [NoOp EXCEPT !.op = IF cmd.kind = "fen" /\ cmd.fen.fields < 6 THEN "none"
                                   ELSE IF p.move_history # << >> THEN "make" ELSE "set_fen"]

UciPosition(cmd) ==
  /\ mode = "uci"
  /\ nCmds < MaxCmds
  /\ nCmds' = nCmds + 1
  /\ UciPositioned(cmd, uci_position_board(board, move_history, cmd))
  /\ goOut' = NoGo
  /\ UNCHANGED <<mode, frames, serviceVars, searchVars, unitVars>>

\* main, "go": go is what the command can print and the board it leaves
UciWent(go) ==
  /\ \E o \in go.out : goOut' = o
  /\ board' = go.board

UciGo ==
  /\ mode = "uci"
  /\ nCmds < MaxCmds
  /\ nCmds' = nCmds + 1
  /\ UciWent(GoBoard(board, move_history))
  /\ lastOp' = [NoOp EXCEPT !.op = "go"]
  /\ UNCHANGED <<mode, frames, move_history, serviceVars, searchVars, unitVars>>

BoardInit == UciInit \/ PerftInit

BoardNext ==
  \/ PerftMake
  \/ PerftUnmake
  \/ \E cmd \in PositionCmds : UciPosition(cmd)
  \/ UciGo

BoardSpec == BoardInit /\ [][BoardNext]_vars

\* ------------------------------------------------- the search at the root
\* search_bestmove and the root call of negamax on one root position, asked
\* by several go commands.  What the tree below the root yields is left
\* open: a search that runs to its end finds some root move best, with a
\* score inside or outside its window.
TT_EXACT == 0
TT_ALPHA == 1
TT_BETA == 2

\* encode_move of the root moves, in the order gen_legal lists them; 0 is no move
Root == <<1, 2, 3>>
RootMoves == {Root[i] : i \in 1..Len(Root)}

\* the key of the root position, and a key that is not it
RootKey == 1
OtherKey == 0

TTEntry(key, depth, flag, best) == [key |-> key, depth |-> depth, flag |-> flag, best |-> best]

\* TTEntry{}: the slot of the root position before anything is stored
NoEntry == TTEntry(OtherKey, -1, TT_EXACT, 0)

\* what one call negamax(b, depth, alpha, beta, st, 0, pv) at the root can do,
\* given the slot e of the root position: the slot after, pv after, whether
\* the score fell outside (alpha, beta), whether the time ran out during the
\* call, whether the call returned at the probe.  full: the window is
\* (-INF, INF).
NegamaxOut(e, pv, fail, timeUp, cut) == [tt |-> e, pv |-> pv, fail |-> fail, timeUp |-> timeUp, cut |-> cut]

negamax(e, depth, full, pv, useTime) ==
  LET deep == e.key = RootKey /\ e.depth >= depth
      atProbe == {NegamaxOut(e, pv, fail, FALSE, TRUE) :
                    fail \in (IF full THEN {FALSE} ELSE IF e.flag = TT_EXACT THEN BOOLEAN ELSE {TRUE})}
      searched ==
        {NegamaxOut(TTEntry(RootKey, depth, TT_EXACT, mv), mv, FALSE, FALSE, FALSE) : mv \in RootMoves}
          \cup (IF full THEN {}
                ELSE {NegamaxOut(TTEntry(RootKey, depth, f, mv), mv, TRUE, FALSE, FALSE) :
                        mv \in RootMoves, f \in {TT_ALPHA, TT_BETA}})
          \cup (IF useTime
                THEN {NegamaxOut(e, pv, FALSE, TRUE, FALSE)}
                       \cup {NegamaxOut(TTEntry(RootKey, depth, f, mv), mv, FALSE, TRUE, FALSE) :
                               mv \in RootMoves, f \in {TT_EXACT, TT_ALPHA, TT_BETA}}
                ELSE {})
  IN IF deep /\ e.flag = TT_EXACT THEN atProbe
     ELSE IF deep /\ ~full THEN atProbe \cup searched
     ELSE searched

\* the locals of search_bestmove.  completed, lastBest and fallback are not
\* in the code: the depth iterations that ran to their end in this go, the
\* best move of the last of them, and whether bestEnc still is the fallback.
NoSearch ==
  [pc |-> "idle", depth |-> 0, bestEnc |-> 0, useTime |-> FALSE, timeUp |-> FALSE,
   completed |-> 0, lastBest |-> 0, fallback |-> FALSE, goes |-> 0]

SearchInit == TT = NoEntry /\ search = NoSearch /\ ServiceOff /\ BoardOff /\ UnitOff

\* main, "go": search_bestmove up to the loop
SearchGo ==
  /\ search.pc = "idle"
  /\ search.goes < MaxGoes
  /\ \E useTime \in BOOLEAN :
       search' = [search EXCEPT !.pc = "iter", !.depth = 1, !.bestEnc = Root[1], !.useTime = useTime,
                                !.timeUp = FALSE, !.completed = 0, !.lastBest = 0, !.fallback = TRUE,
                                !.goes = @ + 1]
  /\ UNCHANGED <<TT, serviceVars, boardVars, unitVars>>

\* steady_clock::now() reaches st.stop
SearchTimeUp ==
  /\ search.pc \in {"iter", "research"}
  /\ search.useTime /\ ~search.timeUp
  /\ search' = [search EXCEPT !.timeUp = TRUE]
  /\ UNCHANGED <<TT, serviceVars, boardVars, unitVars>>

\* the end of a depth iteration that was not broken off: pv is taken if it is a move
Completed(o, e) ==
  [search EXCEPT !.pc = "iter", !.depth = @ + 1,
                 !.bestEnc = IF o.pv # 0 THEN o.pv ELSE @,
                 !.fallback = IF o.cut THEN @ ELSE FALSE,
                 !.completed = @ + 1,
                 !.lastBest = IF o.cut THEN e.best ELSE o.pv]

\* what follows a call of negamax in the loop
AfterNegamax(o, e, first) ==
  /\ TT' = o.tt
  /\ search' = IF o.timeUp THEN [search EXCEPT !.pc = "done", !.timeUp = TRUE]
               ELSE IF first /\ search.depth >= 2 /\ o.fail THEN [search EXCEPT !.pc = "research"]
               ELSE Completed(o, e)

\* the loop of search_bestmove: one depth, up to the test of the window
SearchIter ==
  /\ search.pc = "iter"
  /\ IF search.depth > MaxSearchDepth \/ search.timeUp
     THEN search' = [search EXCEPT !.pc = "done"] /\ TT' = TT
     ELSE \E o \in negamax(TT, search.depth, search.depth < 2, search.bestEnc, search.useTime) :
            AfterNegamax(o, TT, TRUE)
  /\ UNCHANGED <<serviceVars, boardVars, unitVars>>

\* the search again with the window (-INF, INF)
SearchResearch ==
  /\ search.pc = "research"
  /\ IF search.timeUp
     THEN search' = [search EXCEPT !.pc = "done"] /\ TT' = TT
     ELSE \E o \in negamax(TT, search.depth, TRUE, search.bestEnc, search.useTime) :
            AfterNegamax(o, TT, FALSE)
  /\ UNCHANGED <<serviceVars, boardVars, unitVars>>

\* return best: main prints bestmove
SearchReturn ==
  /\ search.pc = "done"
  /\ search' = [search EXCEPT !.pc = "idle"]
  /\ UNCHANGED <<TT, serviceVars, boardVars, unitVars>>

SearchNext == SearchGo \/ SearchTimeUp \/ SearchIter \/ SearchResearch \/ SearchReturn

SearchSpec == SearchInit /\ [][SearchNext]_vars

\* C11: search_bestmove returns the best move of the most recently completed
\* depth iteration, and the first-legal-move fallback only if no depth
\* iteration completed; also in a go on a root position that an earlier go
\* stored in the transposition table.
C11_BestOfLastCompletedDepth ==
  search.pc = "done" =>
    /\ search.completed > 0 => search.bestEnc = search.lastBest
    /\ search.fallback => search.completed = 0

\* --------------------------------------------------------------- the rules
\* The rules of chess the claims speak of, stated on the squares alone.
Abs(x) == IF x < 0 THEN -x ELSE x
Sgn(x) == IF x < 0 THEN -1 ELSE IF x > 0 THEN 1 ELSE 0

\* the squares strictly between s and t on a rank, a file or a diagonal
Between(s, t) ==
  LET df == file_of(t) - file_of(s)
      dr == rank_of(t) - rank_of(s)
      n == IF Abs(df) > Abs(dr) THEN Abs(df) ELSE Abs(dr)
  IN IF df = 0 \/ dr = 0 \/ Abs(df) = Abs(dr)
     THEN {sq_of(file_of(s) + k * Sgn(df), rank_of(s) + k * Sgn(dr)) : k \in 1..(n - 1)}
     ELSE {}

\* the piece on s attacks the square t
Attacks(sq, s, t) ==
  LET p == sq[s]
      df == file_of(t) - file_of(s)
      dr == rank_of(t) - rank_of(s)
      clear == \A x \in Between(s, t) : sq[x] = 0
      straight == (df = 0) # (dr = 0)
      diagonal == Abs(df) = Abs(dr) /\ df # 0
  IN CASE p = 1 \/ p = -1 -> Abs(df) = 1 /\ dr = p
       [] Abs(p) = 2 -> {Abs(df), Abs(dr)} = {1, 2}
       [] Abs(p) = 3 -> diagonal /\ clear
       [] Abs(p) = 4 -> straight /\ clear
       [] Abs(p) = 5 -> (straight \/ diagonal) /\ clear
       [] Abs(p) = 6 -> s # t /\ Abs(df) <= 1 /\ Abs(dr) <= 1
       [] OTHER -> FALSE

\* some piece of colour by attacks the square t
Attacked(sq, t, by) ==
  \E s \in Squares : sq[s] # 0 /\ (sq[s] > 0) = (by = 0) /\ Attacks(sq, s, t)

\* a king of colour c is attacked
KingAttacked(sq, c) ==
  \E t \in Squares : sq[t] = (IF c = 0 THEN 6 ELSE -6) /\ Attacked(sq, t, 1 - c)

\* the mover's king is not attacked after m
SafeAfter(b, m) == ~KingAttacked(Board_make_move(b, m).board.sq, b.side)

InSeq(x, s) == \E i \in 1..Len(s) : s[i] = x

\* C12: make_move(m) followed by unmake_move(m) restores squares, side,
\* castling rights, en-passant square, halfmove clock, fullmove counter, key
\* and key history: the board an unmake_move leaves is the board the matching
\* make_move was called on.
C12_MakeUnmakeRestores ==
  [][(frames # << >> /\ frames' = SubSeq(frames, 1, Len(frames) - 1))
       => board' = frames[Len(frames)].before]_vars

\* an en-passant capture has been made and unmade (a promotion by capture too)
C12_Witness ==
  /\ lastOp.op = "unmake"
  /\ HasBit(lastOp.m.flags, ENPASSANT)
  /\ board.ep = lastOp.m.to

\* C13: after set_fen and after every make_move and unmake_move the key is
\* compute_key() of the board and the last element of key_hist is the key.
C13_KeyIsComputeKey ==
  lastOp.op \in {"set_fen", "make", "unmake"}
    => /\ board.key = compute_key(board)
       /\ board.key_hist # << >>
       /\ board.key_hist[Len(board.key_hist)] = board.key

\* C14: gen_legal returns exactly the pseudo-legal moves after which the
\* mover's king is not attacked, and leaves the board as it was.
C14_GenLegalExact ==
  LET g == Board_gen_legal(board)
      pseudo == gen_pseudo_legal(board)
  IN /\ g.board = board
     /\ g.out = SelectSeq(pseudo, LAMBDA m : SafeAfter(board, m))

\* gen_legal has left out a pseudo-legal move of a pinned piece
C14_Witness ==
  /\ lastOp.op = "unmake"
  /\ \E i \in 1..Len(gen_pseudo_legal(board)) :
       /\ ~InSeq(gen_pseudo_legal(board)[i], Board_gen_legal(board).out)
       /\ board.sq[gen_pseudo_legal(board)[i].from] = 3
  /\ Board_gen_legal(board).out # << >>

\* C15: a castling move is generated only when the right is set, the king is
\* not in check, the squares between king and rook are empty, the mover's
\* rook is on its corner, and transit and destination are not attacked.
C15_CastlingGuards ==
  LET pseudo == gen_pseudo_legal(board)
      white == board.side = 0
      guarded(m) ==
        LET short == m.to > m.from
            corner == IF white THEN (IF short THEN 7 ELSE 0) ELSE (IF short THEN 63 ELSE 56)
            right == IF white THEN (IF short THEN 1 ELSE 2) ELSE (IF short THEN 4 ELSE 8)
            transit == IF short THEN m.from + 1 ELSE m.from - 1
        IN /\ (board.castling \div right) % 2 = 1
           /\ ~KingAttacked(board.sq, board.side)
           /\ \A x \in Between(m.from, corner) : board.sq[x] = 0
           /\ board.sq[corner] = (IF white THEN 4 ELSE -4)
           /\ ~Attacked(board.sq, transit, 1 - board.side)
           /\ ~Attacked(board.sq, m.to, 1 - board.side)
  IN \A i \in 1..Len(pseudo) : HasBit(pseudo[i].flags, CASTLE) => guarded(pseudo[i])

\* white may castle long but not short, because f1 is attacked
C15_Witness ==
  /\ lastOp.op = "unmake"
  /\ InSeq(Move(4, 2, EMPTY, CASTLE), gen_pseudo_legal(board))
  /\ ~InSeq(Move(4, 6, EMPTY, CASTLE), gen_pseudo_legal(board))
  /\ (board.castling \div 1) % 2 = 1
  /\ board.sq[5] = 0 /\ board.sq[6] = 0 /\ board.sq[7] = 4
  /\ Attacked(board.sq, 5, 1)

\* C16: a book move is printed (info string bookhit, then bestmove) only when
\* the history has at most 12 plies, the side to move is not in check, no
\* legal move is a capture or a promotion, the move is legal, it does not
\* start on d1 or d8 within the first 7 plies, and the mover's king is not
\* attacked after it.
C16_BookGate ==
  goOut.bookhit =>
    LET legal == Board_gen_legal(board).out
        at == {i \in 1..Len(legal) : move_to_uci(legal[i]) = goOut.bestmove}
    IN /\ Len(move_history) <= 12
       /\ ~KingAttacked(board.sq, board.side)
       /\ \A i \in 1..Len(legal) :
            /\ board.sq[legal[i].to] = 0
            /\ ~(Abs(board.sq[legal[i].from]) = 1 /\ legal[i].to = board.ep)
            /\ ~(Abs(board.sq[legal[i].from]) = 1 /\ rank_of(legal[i].to) \in {0, 7})
       /\ at # {}
       /\ \A i \in at : SafeAfter(board, legal[i])
       /\ Len(move_history) < 7 => SubSeq(goOut.bestmove, 1, 2) \notin {<<"d", "1">>, <<"d", "8">>}

\* a book move has been printed after the position command replayed a move
C16_Witness == goOut.bookhit /\ Len(move_history) = 1

\* the state object of request r is not active and finished more than 60 s
\* before now
Old(r, now) == ~state[r].active /\ state[r].finishedAt # 0 /\ now - state[r].finishedAt > 60000

\* C17: the status handler never returns an entry that is not active and
\* whose finishedAt is more than 60 s old: such an entry is evicted first and
\* the answer is 404; and an entry leaves the map only when it is not active
\* and finished more than 60 s ago, never while it is active.
C17_StatusNeverOld ==
  /\ [](statusRes.status = 200 =>
          ~(~statusRes.active /\ statusRes.finishedAt # 0
            /\ statusRes.at - statusRes.finishedAt > 60000))
  /\ [][/\ \A id \in Ids :
            (statusRes' # statusRes /\ statusRes'.id = id /\ requestStates[id] # Null
               /\ Old(requestStates[id], clock.now))
              => statusRes'.status = 404 /\ requestStates'[id] = Null
        /\ \A id \in Ids :
            requestStates[id] # Null /\ requestStates'[id] = Null
              => ~state[requestStates[id]].active /\ Old(requestStates[id], clock.now)]_vars

\* the status of a request that finished more than 60 s ago was asked and
\* answered 404
C17_Witness ==
  \E r \in Reqs :
    /\ state[r].made /\ state[r].id = statusRes.id /\ ~state[r].active
    /\ state[r].finishedAt # 0 /\ statusRes.at - state[r].finishedAt > 60000
    /\ statusRes.status = 404
    /\ requestStates[statusRes.id] = Null

\* the handshake with the secondary leaves a command unanswered or no child
HandshakeFailed(p, err) == err \/ p.status # "run" \/ p.stdin # << >>

\* C19: if the handshake with the secondary fails, startup still completes
\* and stockfishReady is false; from then on it stays false, every hint is
\* answered 503 STOCKFISH_UNAVAILABLE, no task is enqueued on the secondary
\* and nothing is written to it, while a move is never refused for it and a
\* valid move is enqueued on the primary.
C19_SecondaryFailureNotFatal ==
  [][/\ startup = "stockfish" =>
          /\ startup' = "listening"
          /\ HandshakeFailed(proc'["stockfish"], startupError'["stockfish"]) => ~stockfishReady'
     /\ startup = "listening" /\ ~stockfishReady =>
          /\ ~stockfishReady'
          /\ queue'["stockfish"] = queue["stockfish"]
          /\ Written("stockfish") = {}
          /\ \A r \in Reqs :
               req[r].pc = "new" /\ req'[r].pc # "new" =>
                 IF req'[r].endpoint = "hint"
                 THEN /\ req'[r].pc = "done"
                      /\ req'[r].res.status = 503
                      /\ req'[r].res.code = "STOCKFISH_UNAVAILABLE"
                 ELSE /\ req'[r].res.status # 503
                      /\ ValidateMove(req'[r].body) = "ok" =>
                           req'[r].pc = "queued" /\ InSeq(r, queue'["engine"].tasks)]_vars

\* after a failed handshake with the secondary a hint was answered 503 and a
\* move was answered with the move of the primary
C19_Witness ==
  /\ startup = "listening" /\ ~stockfishReady
  /\ HandshakeFailed(proc["stockfish"], startupError["stockfish"])
  /\ \E r1, r2 \in Reqs :
       /\ req[r1].endpoint = "hint" /\ req[r1].res.status = 503
       /\ req[r2].endpoint = "move" /\ req[r2].res.status = 200 /\ req[r2].res.uci # "null"

\* the hints the handler has seen, and the code a body fails the checks of
\* POST /api/move with, as far as a hint has the fields
HintReqs == {r \in Reqs : req[r].endpoint = "hint"}

InputError(body) ==
  IF body.fen = "" THEN "MISSING_FEN"
  ELSE IF body.moves_uci.kind = "nonarray" THEN "INVALID_MOVES_UCI"
  ELSE "ok"

\* C18: in every state of the service POST /api/hint answers a body without
\* fen with 400 MISSING_FEN and a moves_uci that is not an array with 400
\* INVALID_MOVES_UCI, as POST /api/move does.
C18_HintValidatesLikeMove ==
  \A r \in HintReqs :
    InputError(req[r].body) # "ok" =>
      req[r].res.status = 400 /\ req[r].res.code = InputError(req[r].body)

\* C18, amended: while the secondary engine is ready POST /api/hint answers a
\* body without fen with 400 MISSING_FEN and a moves_uci that is not an array
\* with 400 INVALID_MOVES_UCI, the codes POST /api/move gives the same body;
\* while it is not ready the answer is 503 STOCKFISH_UNAVAILABLE whatever the
\* body.
C18_HintValidatesWhenReady ==
  \A r \in HintReqs :
    /\ stockfishReady /\ InputError(req[r].body) # "ok" =>
         /\ req[r].res.status = 400
         /\ req[r].res.code = InputError(req[r].body)
         /\ req[r].res.code = ValidateMove(req[r].body)
    /\ ~stockfishReady => req[r].res.status = 503 /\ req[r].res.code = "STOCKFISH_UNAVAILABLE"

\* a hint whose moves_uci is not an array has been answered while the
\* secondary engine is ready
C18_Witness ==
  \E r \in HintReqs :
    /\ stockfishReady
    /\ req[r].body.fen # "" /\ req[r].body.moves_uci.kind = "nonarray"
    /\ req[r].res.status = 400

\* C20: a hint answered with its lines returns, for each multipv index K its
\* own search reported, the latest line parsed for K and nothing else: every
\* entry was printed for the go of this hint, the entries are in ascending
\* order of K, there are at most multipv of them, and best is the move of the
\* first entry (null when there is none).
C20_HintLinesOfOwnSearch ==
  \A r \in HintReqs :
    req[r].pc = "done" /\ req[r].res.status = 200 /\ ~req[r].res.timeout =>
      LET lines == req[r].res.lines
      IN /\ \A i \in 1..Len(lines) : lines[i].by = r
         /\ \A i, j \in 1..Len(lines) : i < j => lines[i].multipv < lines[j].multipv
         /\ Len(lines) <= HintMultipv(req[r].body)
         /\ req[r].res.uci = IF lines = << >> THEN "null" ELSE lines[1].uci

\* the client request r does not run on
OtherClient(r) == IF ClientOf(r) = "engine" THEN "stockfish" ELSE "engine"

\* C21: the two queues are independent.  A queued task whose earlier tasks
\* on its own client are done can start whatever the other client does, so a
\* hint starts, waits and finishes while a move waits for its bestmove and
\* the other way round; and the step that rejects a wait of a task (timeout,
\* 'error' of the child) changes no request, no waiter and no queue of the
\* other client.
C21_QueuesIndependent ==
  /\ [](\A r \in Reqs :
          (/\ req[r].pc = "queued"
           /\ \A r2 \in Reqs :
                r2 < r /\ ClientOf(r2) = ClientOf(r) /\ Accepted(r2) => req[r2].pc = "done")
            => r \in Startable(ClientOf(r)))
  /\ [][\A r \in Reqs :
          req[r].pc # "new" /\ req[r].e = "none" /\ req'[r].e # "none" =>
            /\ \A r2 \in Reqs : req[r2].pc # "new" /\ ClientOf(r2) # ClientOf(r) => req'[r2] = req[r2]
            /\ waiters'[OtherClient(r)] = waiters[OtherClient(r)]
            /\ queue'[OtherClient(r)] = queue[OtherClient(r)]
            /\ startupError'[OtherClient(r)] = startupError[OtherClient(r)]]_vars

\* a hint was enqueued after a move, has started, waited and returned its
\* lines while the move still waits for its bestmove
C21_Witness ==
  \E m, h \in Reqs :
    /\ m < h
    /\ req[m].endpoint = "move" /\ req[m].started /\ req[m].pc = "await" /\ req[m].at = "bestmove"
    /\ req[h].endpoint = "hint" /\ req[h].started /\ req[h].pc = "done"
    /\ req[h].res.status = 200 /\ ~req[h].res.timeout /\ req[h].res.lines # << >>

\* C29: activeRequestId is null or the id of the move task whose body is
\* executing on the primary queue, and when the catch block of a request
\* clears the pointer no other request's task is the one running
C29_ActivePointsAtRunningTask ==
  /\ [](activeRequestId # Null =>
          \E r \in Bodies("engine") : req[r].requestId = activeRequestId)
  /\ [][\A r \in MoveReqs :
          req[r].pc = "resume" /\ req[r].e # "none" /\ req'[r].pc = "done" =>
            /\ activeRequestId' = Null
            /\ Bodies("engine") \subseteq {r}
            /\ activeRequestId \in {Null, req[r].requestId}]_vars

\* a move task is past its first await with the pointer on it, after an
\* earlier move request ended in its catch block
C29_Witness ==
  \E r1, r2 \in MoveReqs :
    /\ r1 # r2 /\ req[r1].pc = "done" /\ req[r1].started /\ req[r1].e # "none"
    /\ InBody(r2) /\ activeRequestId = req[r2].requestId

\* the primary child hands the service an info line in this step
InfoLineStep ==
  /\ proc["engine"].out # << >>
  /\ StartsWithInfo(Head(proc["engine"].out))
  /\ proc'["engine"].out = Tail(proc["engine"].out)

\* C30: an info line of the primary engine changes only lastInfo and
\* lastInfoAt of the state that activeRequestId designates; every other
\* request state is unchanged, and with a null pointer no state changes
C30_InfoLineFrame ==
  [][InfoLineStep =>
       /\ activeRequestId' = activeRequestId /\ requestStates' = requestStates
       /\ \A r \in Reqs :
            IF activeRequestId # Null /\ r = requestStates[activeRequestId]
            THEN /\ state'[r] = [state[r] EXCEPT !.lastInfo = state'[r].lastInfo,
                                                 !.lastInfoAt = state'[r].lastInfoAt]
                 /\ state'[r].lastInfo = parseInfoLine(Head(proc["engine"].out))
                 /\ state'[r].lastInfoAt
            ELSE state'[r] = state[r]]_vars

\* an info line was recorded in one request's state while another request
\* was queued, and later a further info line is about to arrive with the
\* pointer null
C30_Witness ==
  /\ \E r, r2 \in MoveReqs :
       /\ r # r2 /\ state[r].lastInfoAt /\ req[r2].pc \in {"queued", "await", "done"}
       /\ state[r2].lastInfo = NoInfo
  /\ activeRequestId = Null
  /\ proc["engine"].out # << >> /\ StartsWithInfo(Head(proc["engine"].out))

\* C28: a client never holds more than one pending waiter; every waiter
\* belongs to the task whose body is executing on that client, no waiter is
\* left when a task starts, and a line resolves only the wait of the task
\* that is running
C28_OneWaiterPerClient ==
  /\ [](\A c \in Clients :
          /\ Len(waiters[c]) <= 1
          /\ \A i \in 1..Len(waiters[c]) :
               /\ waiters[c][i].owner \in Bodies(c)
               /\ req[waiters[c][i].owner].pc = "await"
               /\ Bodies(c) = {waiters[c][i].owner})
  /\ [][\A r \in Reqs :
          /\ (~req[r].started /\ req'[r].started => waiters[ClientOf(r)] = << >>)
          /\ (req[r].pc = "await" /\ req'[r].pc = "resume" /\ req'[r].e = "none" =>
                /\ Bodies(ClientOf(r)) = {r}
                /\ waiters[ClientOf(r)] = << waiters[ClientOf(r)][1] >>
                /\ waiters[ClientOf(r)][1].owner = r
                /\ waiters'[ClientOf(r)] = << >>)]_vars

\* the second task of a client waits for its line after the wait of the
\* first task timed out, with a line of the child still to come
C28_Witness ==
  \E c \in Clients, r1, r2 \in Reqs :
    /\ r1 # r2 /\ ClientOf(r1) = c /\ ClientOf(r2) = c
    /\ req[r1].pc = "done" /\ req[r1].e = "engine timeout"
    /\ req[r2].pc = "await" /\ Len(waiters[c]) = 1 /\ waiters[c][1].owner = r2
    /\ proc[c].out # << >>

\* ------------------------------------------- createUciClient by itself
\* One client, with callers that use what it returns the way initClients
\* and the tasks do, but as often and as early as they like: waitFor with
\* the predicates of the service, onLine and the function it returns,
\* cleanupWaitersForRequest.  The child prints any line at any time.
WaitIds == 1..MaxWaits

\* the handlers a caller may register
Observers == {1, 2}

\* the predicates the service waits with
Preds == {"uciok", "readyok", "bestmove"}

\* requestId of a waiter: "system" (0) or the id of a request
WaitRequestIds == {0, 1}

\* a line as readline hands it over: its text, and whether blanks surround
\* it; the text "" is a line of blanks only
RawLines ==
  {[kind |-> k, pad |-> FALSE] : k \in {"uciok", "readyok", "bestmove", "info"}}
    \cup {[kind |-> "readyok", pad |-> TRUE], [kind |-> "", pad |-> TRUE]}

\* rawLine.trim()
trim(raw) == Line(raw.kind, 0)

\* calls[id]: the calls of resolve and reject of the promise of the id-th
\* waitFor, in order (not in the code); rx: the line 'line' last ran for and
\* the parity of the lines read; trace: what that event did, in order
NewClient ==
  [waiters |-> << >>, onLineHandlers |-> << >>, startupError |-> FALSE,
   timers |-> {}, calls |-> [id \in WaitIds |-> << >>], made |-> 0,
   rx |-> [raw |-> [kind |-> "", pad |-> FALSE], parity |-> 0], trace |-> << >>]

ClientInit == client = NewClient /\ node = Null /\ budget = Null /\ bookTable = Null /\ resolved = Null /\ ttScore = Null /\ ServiceOff /\ BoardOff /\ SearchOff

\* waiter.resolve without clearTimeout
resolveNoClear(cl, id) == [cl EXCEPT !.calls[id] = Append(@, "line")]

\* waiter.resolve: clearTimeout(timer); resolve(line)
resolve(cl, id) == [cl EXCEPT !.timers = @ \ {id}, !.calls[id] = Append(@, "line")]

\* waiter.reject: clearTimeout(timer); reject(error)
reject(cl, id) == [cl EXCEPT !.timers = @ \ {id}, !.calls[id] = Append(@, "error")]

RECURSIVE rejectAll(_, _)
\* for (const waiter of currentWaiters) waiter.reject(error)
rejectAll(cl, W) == IF W = << >> THEN cl ELSE rejectAll(reject(cl, Head(W).id), Tail(W))

\* waitFor(predicate, timeoutMs, requestId)
ClientWaitFor(pred, requestId) ==
  /\ client.made < MaxWaits
  /\ LET id == client.made + 1
         cl == [client EXCEPT !.made = id]
     IN client' = IF client.startupError
                  THEN [cl EXCEPT !.calls[id] = Append(@, "error")]
                  ELSE [cl EXCEPT !.timers = @ \cup {id},
                                  !.waiters = Append(@, [id |-> id, requestId |-> requestId, pred |-> pred])]
  /\ UNCHANGED <<node, budget, bookTable, resolved, ttScore, serviceVars, engineVars>>

\* the timer of the id-th waitFor fires
ClientTimer(id) ==
  /\ id \in client.timers
  /\ client' = [client EXCEPT !.timers = @ \ {id},
                              !.waiters = SelectSeq(@, LAMBDA w : w.id # id),
                              !.calls[id] = Append(@, "engine timeout")]
  /\ UNCHANGED <<node, budget, bookTable, resolved, ttScore, serviceVars, engineVars>>

\* proc.on('error')
ClientError ==
  /\ ~client.startupError
  /\ client' = rejectAll([client EXCEPT !.startupError = TRUE, !.waiters = << >>], client.waiters)
  /\ UNCHANGED <<node, budget, bookTable, resolved, ttScore, serviceVars, engineVars>>

\* the handlers see the line, in the order they were added
HandlerEvents(H, line) == [i \in 1..Len(H) |-> [ev |-> "observer", who |-> H[i], line |-> line.kind]]

\* rl.on('line')
ClientLine(raw) ==
  /\ LET line == trim(raw)
         cl == [client EXCEPT !.rx = [raw |-> raw, parity |-> 1 - @.parity], !.trace = << >>]
         i == FirstMatch(client.waiters, line)
         seen == [cl EXCEPT !.trace = HandlerEvents(client.onLineHandlers, line)]
     IN client' = IF line.kind = "" THEN cl
                  ELSE IF i = 0 THEN seen
                  ELSE resolve([seen EXCEPT !.waiters = RemoveAt(@, i),
                                            !.trace = Append(@, [ev |-> "resolve", who |-> client.waiters[i].id,
                                                                 line |-> line.kind])],
                               client.waiters[i].id)
  /\ UNCHANGED <<node, budget, bookTable, resolved, ttScore, serviceVars, engineVars>>

\* onLine(handler)
ClientOnLine(h) ==
  /\ \A i \in 1..Len(client.onLineHandlers) : client.onLineHandlers[i] # h
  /\ client' = [client EXCEPT !.onLineHandlers = Append(@, h)]
  /\ UNCHANGED <<node, budget, bookTable, resolved, ttScore, serviceVars, engineVars>>

\* the function onLine returned is called
ClientOffLine(h) ==
  /\ \E i \in 1..Len(client.onLineHandlers) : client.onLineHandlers[i] = h
  /\ client' = [client EXCEPT !.onLineHandlers = SelectSeq(@, LAMBDA x : x # h)]
  /\ UNCHANGED <<node, budget, bookTable, resolved, ttScore, serviceVars, engineVars>>

\* cleanupWaitersForRequest(requestId)
ClientCleanup(requestId) ==
  /\ \E i \in 1..Len(client.waiters) : client.waiters[i].requestId = requestId
  /\ client' = [client EXCEPT !.waiters = cleanupWaitersForRequest(@, requestId)]
  /\ UNCHANGED <<node, budget, bookTable, resolved, ttScore, serviceVars, engineVars>>

ClientNext ==
  \/ \E pred \in Preds, requestId \in WaitRequestIds : ClientWaitFor(pred, requestId)
  \/ \E id \in WaitIds : ClientTimer(id)
  \/ ClientError
  \/ \E raw \in RawLines : ClientLine(raw)
  \/ \E h \in Observers : ClientOnLine(h)
  \/ \E h \in Observers : ClientOffLine(h)
  \/ \E requestId \in WaitRequestIds : ClientCleanup(requestId)

ClientSpec == ClientInit /\ [][ClientNext]_vars

\* the client without observers: waiters, lines, timers and the 'error' event
ClientWaitNext ==
  \/ \E pred \in Preds, requestId \in WaitRequestIds : ClientWaitFor(pred, requestId)
  \/ \E id \in WaitIds : ClientTimer(id)
  \/ ClientError
  \/ \E raw \in RawLines : ClientLine(raw)
  \/ \E requestId \in WaitRequestIds : ClientCleanup(requestId)

\* a timer that is set fires unless it is cleared
ClientFairSpec ==
  ClientInit /\ [][ClientWaitNext]_vars /\ \A id \in WaitIds : WF_vars(ClientTimer(id))

\* the places in the FIFO W of the waiters that wait for a line of this kind
Waiting(W, kind) == {i \in 1..Len(W) : W[i].pred = kind}

\* the FIFO W without its i-th waiter, the others in their order
Without(W, i) == SubSeq(W, 1, i - 1) \o SubSeq(W, i + 1, Len(W))

\* C26: a line that is not blank is handed to every registered observer, in
\* the order of registration, and then resolves the earliest waiter whose
\* predicate matches, if there is one: that waiter leaves the FIFO, the
\* others stay in their order, no other promise is settled.  A line of
\* blanks reaches no observer and no waiter.
C26_LineToObserversThenFirstWaiter ==
  [][client'.rx.parity # client.rx.parity =>
       LET kind == client'.rx.raw.kind
           W == client.waiters
           H == client.onLineHandlers
           m == Waiting(W, kind)
           tr == client'.trace
       IN /\ client'.onLineHandlers = H /\ client'.made = client.made
          /\ client'.startupError = client.startupError
          /\ IF kind = ""
             THEN tr = << >> /\ client'.waiters = W
                  /\ client'.calls = client.calls /\ client'.timers = client.timers
             ELSE /\ Len(tr) >= Len(H)
                  /\ \A i \in 1..Len(H) : tr[i] = [ev |-> "observer", who |-> H[i], line |-> kind]
                  /\ IF m = {}
                     THEN Len(tr) = Len(H) /\ client'.waiters = W
                          /\ client'.calls = client.calls /\ client'.timers = client.timers
                     ELSE LET i == CHOOSE x \in m : \A y \in m : x <= y
                          IN /\ tr = SubSeq(tr, 1, Len(H))
                                       \o << [ev |-> "resolve", who |-> W[i].id, line |-> kind] >>
                             /\ client'.waiters = Without(W, i)
                             /\ \A id \in WaitIds :
                                  client'.calls[id] = IF id = W[i].id THEN Append(client.calls[id], "line")
                                                      ELSE client.calls[id]]_vars

\* two observers saw a line that resolved the second of three waiters: the
\* first and the third are still queued, in that order
C26_Witness ==
  /\ Len(client.trace) = 3 /\ client.trace[3].ev = "resolve" /\ client.trace[3].who = 2
  /\ Len(client.waiters) = 2 /\ client.waiters[1].id = 1 /\ client.waiters[2].id = 3
  /\ client.waiters[2].pred = client.trace[3].line

\* the id-th waitFor was settled at most once, by one of these outcomes, and
\* what its settling leaves behind: no timer after a line or the 'error'
\* event, no waiter in the FIFO once settled
SettledOnceBy(id, outcomes) ==
  /\ Len(client.calls[id]) <= 1
  /\ \A k \in 1..Len(client.calls[id]) : client.calls[id][k] \in outcomes
  /\ client.calls[id] # << >> =>
       /\ \A i \in 1..Len(client.waiters) : client.waiters[i].id # id
       /\ id \notin client.timers

\* C27 as claimed: every waiter is settled exactly once, resolved by a
\* matching line or rejected with 'engine timeout' by its timer
C27_SettledByLineOrTimeout ==
  /\ [](\A id \in WaitIds : id <= client.made => SettledOnceBy(id, {"line", "engine timeout"}))
  /\ \A id \in WaitIds : (id <= client.made) ~> (Len(client.calls[id]) = 1)

\* C27, amended: every waiter is settled exactly once: resolved by a
\* matching line (its timer is then cancelled), rejected with 'engine
\* timeout' when its timer fires (it is then out of the FIFO), or rejected
\* with the error of the child's 'error' event (when the event arrives, or at
\* once if it arrived before waitFor was called).  No line resolves and no
\* timer rejects a waiter that is settled.
C27_SettledExactlyOnce ==
  /\ [](\A id \in WaitIds : id <= client.made => SettledOnceBy(id, {"line", "engine timeout", "error"}))
  /\ [][\A id \in WaitIds : client.calls[id] # << >> => client'.calls[id] = client.calls[id]]_vars
  /\ \A id \in WaitIds : (id <= client.made) ~> (Len(client.calls[id]) = 1)

\* one waiter was resolved by a line, one rejected by its timer and one by
\* the 'error' event
C27_Witness ==
  /\ client.made = 3
  /\ \E a, b, c \in WaitIds :
       /\ client.calls[a] = <<"line">> /\ client.calls[b] = <<"engine timeout">>
       /\ client.calls[c] = <<"error">>
  /\ client.timers = {}

\* ---------------------------------------------- repetition in the search
\* Board::is_repetition, the loop from the entry at i (counted from 1) with
\* steps plies gone and reps matches so far
RECURSIVE RepScan(_, _, _, _)
RepScan(b, i, steps, reps) ==
  IF i < 1 \/ steps > b.halfmove THEN FALSE
  ELSE IF b.key_hist[i] = b.key
       THEN (IF reps + 1 >= 2 THEN TRUE ELSE RepScan(b, i - 2, steps + 2, reps + 1))
       ELSE RepScan(b, i - 2, steps + 2, reps)

\* the scan starts at the current entry, not two plies before it
is_repetitionFromCurrent(b) == RepScan(b, Len(b.key_hist), 0, 0)

\* Board::is_repetition
is_repetition(b) == RepScan(b, Len(b.key_hist) - 2, 0, 0)

\* negamax up to the point where it looks at the moves: how it leaves
\* ("eval", "draw") or goes on ("search"), the score it returns if it leaves
\* at a draw, and what is_repetition returned if it was called
NoNode == [ply |-> 0, how |-> "none", score |-> 0, rep |-> "not called"]

negamax_node(b, timeUp, n) ==
  IF timeUp THEN [n EXCEPT !.how = "eval"]
  ELSE IF b.halfmove >= 100 THEN [n EXCEPT !.how = "draw", !.score = 0]
  ELSE IF is_repetition(b) THEN [n EXCEPT !.how = "draw", !.score = 0, !.rep = "true"]
  ELSE [n EXCEPT !.how = "search", !.rep = "false"]

\* the moves that are made: a knight of each side out and back, and a pawn
\* move of each side
RepMoves ==
  {Uci("g", "1", "f", "3"), Uci("f", "3", "g", "1"), Uci("g", "8", "f", "6"), Uci("f", "6", "g", "8"),
   Uci("e", "2", "e", "4"), Uci("e", "7", "e", "5")}

\* main: Board board; board.set_startpos()
RepInit ==
  /\ mode = "uci"
  /\ board = Board_set_fen(NewBoard, START_FEN).board
  /\ frames = << >>
  /\ move_history = << >>
  /\ goOut = NoGo
  /\ lastOp = [NoOp EXCEPT !.op = "set_fen"]
  /\ nCmds = 0
  /\ node = NoNode
  /\ client = Null /\ budget = Null /\ bookTable = Null /\ resolved = Null /\ ttScore = Null
  /\ ServiceOff
  /\ SearchOff

\* a move is made on the board, by uci_position replaying a move token or
\* by the search going down one ply
RepMade(a, uci) ==
  /\ a.ok
  /\ board' = a.board
  /\ move_history' = Append(move_history, uci)

RepMake(g) ==
  /\ node.ply < MaxRepPly
  /\ \E uci \in RepMoves :
       RepMade(ApplyFound(g, str_to_sq(SubSeq(uci, 1, 2)), str_to_sq(SubSeq(uci, 3, 4)), EMPTY), uci)
  /\ node' = [NoNode EXCEPT !.ply = node.ply + 1]
  /\ lastOp' = [NoOp EXCEPT !.op = "make"]
  /\ UNCHANGED <<mode, frames, goOut, nCmds, client, budget, bookTable, resolved, ttScore, serviceVars, searchVars>>

\* negamax is entered on the board
RepNegamax(timeUp) ==
  /\ node.ply >= 1 /\ node.how = "none"
  /\ node' = negamax_node(board, timeUp, node)
  /\ UNCHANGED <<client, budget, bookTable, resolved, ttScore, serviceVars, engineVars>>

RepNext ==
  \/ RepMake(Board_gen_legal(board))
  \/ \E timeUp \in BOOLEAN : RepNegamax(timeUp)

RepSpec == RepInit /\ [][RepNext]_vars

\* the plies before the current position, at most halfmove of them, at
\* which the side to move was the same and the key was the current one
SameBefore(b) ==
  {d \in 1..b.halfmove :
     /\ d % 2 = 0 /\ d < Len(b.key_hist)
     /\ b.key_hist[Len(b.key_hist) - d] = b.key}

\* C22: is_repetition returns true exactly when the current key occurs at
\* least twice among the earlier entries of key_hist with the same side to
\* move that lie at most halfmove plies back; when it returned true,
\* negamax leaves with the score 0
C22_RepetitionIsThreefold ==
  /\ is_repetition(board) <=> Cardinality(SameBefore(board)) >= 2
  /\ node.rep = "true" => node.how = "draw" /\ node.score = 0 /\ Cardinality(SameBefore(board)) >= 2
  /\ node.rep = "false" => Cardinality(SameBefore(board)) < 2

\* negamax was entered on a position that stood twice before, after a pawn
\* move earlier in the game, and left with a draw
C22_Witness ==
  /\ node.rep = "true" /\ node.how = "draw"
  /\ board.halfmove < Len(board.key_hist) - 1

\* ------------------------------------------------- the budget of a go
\* A token of a line: a word, or a number that fits an int
Word(w) == [w |-> w, n |-> 0]
Num(n) == [w |-> "#", n |-> n]

\* the field of GoParams a word of the go line sets
GoField(w) == IF w = "movetime" THEN "movetime_ms" ELSE w

\* parse_go, the loop from the token at i (counted from 1): every token but
\* the last is looked at, and a known word sets its field to std::stoi of
\* the token after it, which throws if that is not a number
RECURSIVE parse_go_from(_, _, _)
parse_go_from(p, tok, i) ==
  IF i + 1 > Len(tok) THEN [p |-> p, threw |-> FALSE]
  ELSE IF tok[i].w \in {"depth", "movetime", "wtime", "btime", "winc", "binc"}
       THEN (IF tok[i + 1].w # "#" THEN [p |-> p, threw |-> TRUE]
             ELSE parse_go_from([p EXCEPT ![GoField(tok[i].w)] = tok[i + 1].n], tok, i + 1))
       ELSE parse_go_from(p, tok, i + 1)

\* parse_go(line), tok is split_ws(line)
parse_go_line(tok) == parse_go_from(GoParams, tok, 1)

NoBudget ==
  [line |-> << >>, side |-> WHITE, threw |-> FALSE, gp |-> GoParams,
   movetime |-> 0, maxDepth |-> 0, use_time_limit |-> FALSE]

\* main, "go": the arguments of search_bestmove, and whether it searches
\* against the clock (use_time_limit = movetime_ms > 0)
GoBudget(r, gp, movetime) ==
  [r EXCEPT !.gp = gp, !.movetime = movetime,
            !.maxDepth = IF gp.depth > 0 THEN gp.depth ELSE DefaultMaxDepth,
            !.use_time_limit = movetime > 0]

main_goAlwaysTimed(side, tok, parsed) ==
  IF parsed.threw THEN [NoBudget EXCEPT !.line = tok, !.side = side, !.threw = TRUE]
  ELSE GoBudget([NoBudget EXCEPT !.line = tok, !.side = side], parsed.p,
                choose_movetime_ms(side, parsed.p))

main_go(side, tok, parsed) ==
  IF parsed.threw THEN [NoBudget EXCEPT !.line = tok, !.side = side, !.threw = TRUE]
  ELSE GoBudget([NoBudget EXCEPT !.line = tok, !.side = side], parsed.p,
                IF parsed.p.depth > 0 THEN 0 ELSE choose_movetime_ms(side, parsed.p))

\* a word with one of the values, or nothing
Opt(w, values) == {<< >>} \cup {<<Word(w), Num(v)>> : v \in values}

\* the go lines the engine is sent
GoLines ==
  {<<Word("go")>> \o d \o m \o wt \o bt \o wi \o bi :
     d \in Opt("depth", {0, 5}), m \in Opt("movetime", {-10, 0, 100}),
     wt \in Opt("wtime", {0, 500, 28000, 60000}), bt \in Opt("btime", {28000}),
     wi \in Opt("winc", {-5, 1000}), bi \in Opt("binc", {400})}
    \cup {<<Word("go"), Word("depth"), Word("movetime"), Num(100)>>, <<Word("go"), Word("movetime")>>,
          <<Word("go"), Word("movetime"), Num(100), Word("movetime"), Num(0), Word("wtime"), Num(500)>>}

GoInit == budget = NoBudget /\ client = Null /\ node = Null /\ bookTable = Null /\ resolved = Null /\ ttScore = Null /\ ServiceOff /\ BoardOff /\ SearchOff

\* main reads a go line with the given side to move on the board
UciGoLine(side, tok) ==
  /\ budget' = main_go(side, tok, parse_go_line(tok))
  /\ UNCHANGED <<client, node, bookTable, resolved, ttScore, serviceVars, engineVars>>

GoNext == \E side \in {WHITE, BLACK}, tok \in GoLines : UciGoLine(side, tok)

GoSpec == GoInit /\ [][GoNext]_vars

\* the number after the word w in the line, or dflt if the word is not there
Supplied(tok, w, dflt) ==
  IF \E i \in 1..(Len(tok) - 1) : tok[i].w = w
  THEN tok[(CHOOSE i \in 1..(Len(tok) - 1) :
              tok[i].w = w /\ \A j \in (i + 1)..(Len(tok) - 1) : tok[j].w # w) + 1].n
  ELSE dflt

\* the budget the claim gives the go line tok with side to move
ClaimedBudget(tok, side) ==
  LET mt == Supplied(tok, "movetime", 0)
      rem == Supplied(tok, IF side = WHITE THEN "wtime" ELSE "btime", -1)
      inc == Supplied(tok, IF side = WHITE THEN "winc" ELSE "binc", 0)
  IN IF mt > 0 THEN mt
     ELSE IF rem > 0 THEN Max(30, Min(1200, IntDiv(rem, 28) + IntDiv(inc, 2)))
     ELSE 200

\* C23: the time budget of a go is the supplied movetime if it is positive,
\* else remaining/28 + increment/2 clamped to [30, 1200] if the side to move
\* has a positive remaining clock, else 200; a positive movetime is the
\* budget of every go that carries one
C23_BudgetOfGo ==
  budget.line # << >> /\ ~budget.threw =>
    /\ budget.use_time_limit
    /\ budget.movetime = ClaimedBudget(budget.line, budget.side)

\* C23 as amended: a go whose depth is positive searches to that depth with
\* no time limit, whatever movetime and clocks it carries; every other go
\* searches to depth 20 within the supplied movetime if that is positive,
\* else within remaining/28 + increment/2 (each division truncating) clamped
\* to [30, 1200] if the clock of the side to move is positive, else within 200
C23_BudgetUnlessDepth ==
  budget.line # << >> /\ ~budget.threw =>
    IF Supplied(budget.line, "depth", 0) > 0
    THEN /\ ~budget.use_time_limit
         /\ budget.movetime = 0
         /\ budget.maxDepth = Supplied(budget.line, "depth", 0)
    ELSE /\ budget.use_time_limit
         /\ budget.movetime = ClaimedBudget(budget.line, budget.side)
         /\ budget.maxDepth = DefaultMaxDepth

C23_Witness ==
  /\ budget.line # << >> /\ ~budget.threw
  /\ Supplied(budget.line, "depth", 0) > 0
  /\ Supplied(budget.line, "movetime", 0) > 0
  /\ budget.movetime = 0 /\ budget.maxDepth = 5

\* -------------------------------------------- the deterministic book
\* opening_book_table of opening_book_deterministic.cpp, the initializer
\* list in the order of the source
deterministic_book_entries ==
  <<
     [key |-> <<>>,
      candidates |-> <<[uci |-> <<"e", "2", "e", "4">>, weight |-> 100]>>],
     [key |-> <<"e", "2", "e", "4">>,
      candidates |-> <<[uci |-> <<"e", "7", "e", "5">>, weight |-> 100]>>],
     [key |-> <<"e", "2", "e", "4", " ", "c", "7", "c", "5">>,
      candidates |-> <<[uci |-> <<"g", "1", "f", "3">>, weight |-> 100]>>],
     [key |-> <<"e", "2", "e", "4", " ", "c", "7", "c", "6">>,
      candidates |-> <<[uci |-> <<"d", "2", "d", "4">>, weight |-> 100]>>],
     [key |-> <<"e", "2", "e", "4", " ", "e", "7", "e", "6">>,
      candidates |-> <<[uci |-> <<"d", "2", "d", "4">>, weight |-> 100]>>],
     [key |-> <<"e", "2", "e", "4", " ", "d", "7", "d", "5">>,
      candidates |-> <<[uci |-> <<"e", "4", "d", "5">>, weight |-> 100]>>],
     [key |-> <<"e", "2", "e", "4", " ", "g", "8", "f", "6">>,
      candidates |-> <<[uci |-> <<"e", "4", "e", "5">>, weight |-> 100]>>],
     [key |-> <<"e", "2", "e", "4", " ", "g", "7", "g", "6">>,
      candidates |-> <<[uci |-> <<"d", "2", "d", "4">>, weight |-> 100]>>],
     [key |-> <<"e", "2", "e", "4", " ", "e", "7", "e", "5">>,
      candidates |-> <<[uci |-> <<"g", "1", "f", "3">>, weight |-> 100]>>],
     [key |-> <<"e", "2", "e", "4", " ", "e", "7", "e", "5", " ", "g", "1", "f", "3">>,
      candidates |-> <<[uci |-> <<"b", "8", "c", "6">>, weight |-> 100]>>],
     [key |-> <<"e", "2", "e", "4", " ", "e", "7", "e", "5", " ", "g", "1", "f", "3", " ", "g", "8", "f", "6">>,
      candidates |-> <<[uci |-> <<"f", "3", "e", "5">>, weight |-> 100]>>],
     [key |-> <<"e", "2", "e", "4", " ", "e", "7", "e", "5", " ", "g", "1", "f", "3", " ", "b", "8", "c", "6">>,
      candidates |-> <<[uci |-> <<"f", "1", "c", "4">>, weight |-> 100]>>],
     [key |-> <<"e", "2", "e", "4", " ", "e", "7", "e", "5", " ", "g", "1", "f", "3", " ", "b", "8", "c", "6", " ", "f", "1", "c", "4">>,
      candidates |-> <<[uci |-> <<"f", "8", "c", "5">>, weight |-> 100]>>],
     [key |-> <<"e", "2", "e", "4", " ", "e", "7", "e", "5", " ", "g", "1", "f", "3", " ", "b", "8", "c", "6", " ", "f", "1", "c", "4", " ", "f", "8", "c", "5">>,
      candidates |-> <<[uci |-> <<"c", "2", "c", "3">>, weight |-> 100]>>],
     [key |-> <<"e", "2", "e", "4", " ", "e", "7", "e", "5", " ", "g", "1", "f", "3", " ", "b", "8", "c", "6", " ", "f", "1", "c", "4", " ", "f", "8", "c", "5", " ", "c", "2", "c", "3">>,
      candidates |-> <<[uci |-> <<"g", "8", "f", "6">>, weight |-> 100]>>],
     [key |-> <<"e", "2", "e", "4", " ", "e", "7", "e", "5", " ", "g", "1", "f", "3", " ", "b", "8", "c", "6", " ", "f", "1", "c", "4", " ", "f", "8", "c", "5", " ", "c", "2", "c", "3", " ", "g", "8", "f", "6">>,
      candidates |-> <<[uci |-> <<"d", "2", "d", "4">>, weight |-> 100]>>],
     [key |-> <<"e", "2", "e", "4", " ", "e", "7", "e", "5", " ", "g", "1", "f", "3", " ", "b", "8", "c", "6", " ", "f", "1", "c", "4", " ", "f", "8", "c", "5", " ", "c", "2", "c", "3", " ", "g", "8", "f", "6", " ", "d", "2", "d", "4">>,
      candidates |-> <<[uci |-> <<"e", "5", "d", "4">>, weight |-> 100]>>],
     [key |-> <<"e", "2", "e", "4", " ", "e", "7", "e", "5", " ", "g", "1", "f", "3", " ", "b", "8", "c", "6", " ", "f", "1", "c", "4", " ", "f", "8", "c", "5", " ", "c", "2", "c", "3", " ", "g", "8", "f", "6", " ", "d", "2", "d", "4", " ", "e", "5", "d", "4">>,
      candidates |-> <<[uci |-> <<"c", "3", "d", "4">>, weight |-> 100]>>],
     [key |-> <<"e", "2", "e", "4", " ", "e", "7", "e", "5", " ", "g", "1", "f", "3", " ", "b", "8", "c", "6", " ", "f", "1", "c", "4", " ", "f", "8", "c", "5", " ", "c", "2", "c", "3", " ", "g", "8", "f", "6", " ", "d", "2", "d", "4", " ", "e", "5", "d", "4", " ", "c", "3", "d", "4">>,
      candidates |-> <<[uci |-> <<"c", "5", "b", "4">>, weight |-> 100]>>],
     [key |-> <<"e", "2", "e", "4", " ", "e", "7", "e", "5", " ", "g", "1", "f", "3", " ", "b", "8", "c", "6", " ", "f", "1", "c", "4", " ", "f", "8", "c", "5", " ", "c", "2", "c", "3", " ", "g", "8", "f", "6", " ", "d", "2", "d", "4", " ", "e", "5", "d", "4", " ", "c", "3", "d", "4", " ", "c", "5", "b", "4">>,
      candidates |-> <<[uci |-> <<"b", "1", "c", "3">>, weight |-> 100]>>],
     [key |-> <<"e", "2", "e", "4", " ", "e", "7", "e", "5", " ", "g", "1", "f", "3", " ", "b", "8", "c", "6", " ", "f", "1", "c", "4", " ", "f", "8", "c", "5", " ", "c", "2", "c", "3", " ", "g", "8", "f", "6", " ", "d", "2", "d", "4", " ", "e", "5", "d", "4", " ", "c", "3", "d", "4", " ", "c", "5", "b", "4", " ", "b", "1", "c", "3">>,
      candidates |-> <<[uci |-> <<"f", "6", "e", "4">>, weight |-> 100]>>],
     [key |-> <<"e", "2", "e", "4", " ", "e", "7", "e", "5", " ", "g", "1", "f", "3", " ", "b", "8", "c", "6", " ", "f", "1", "c", "4", " ", "f", "8", "c", "5", " ", "c", "2", "c", "3", " ", "g", "8", "f", "6", " ", "d", "2", "d", "4", " ", "e", "5", "d", "4", " ", "c", "3", "d", "4", " ", "c", "5", "b", "4", " ", "b", "1", "c", "3", " ", "f", "6", "e", "4">>,
      candidates |-> <<[uci |-> <<"e", "1", "g", "1">>, weight |-> 100]>>],
     [key |-> <<"e", "2", "e", "4", " ", "e", "7", "e", "5", " ", "g", "1", "f", "3", " ", "b", "8", "c", "6", " ", "f", "1", "c", "4", " ", "f", "8", "c", "5", " ", "c", "2", "c", "3", " ", "g", "8", "f", "6", " ", "d", "2", "d", "4", " ", "e", "5", "d", "4", " ", "c", "3", "d", "4", " ", "c", "5", "b", "4", " ", "b", "1", "c", "3", " ", "f", "6", "e", "4", " ", "e", "1", "g", "1">>,
      candidates |-> <<[uci |-> <<"b", "4", "c", "3">>, weight |-> 100]>>],
     [key |-> <<"e", "2", "e", "4", " ", "e", "7", "e", "5", " ", "g", "1", "f", "3", " ", "b", "8", "c", "6", " ", "f", "1", "c", "4", " ", "f", "8", "c", "5", " ", "c", "2", "c", "3", " ", "g", "8", "f", "6", " ", "d", "2", "d", "4", " ", "e", "5", "d", "4", " ", "c", "3", "d", "4", " ", "c", "5", "b", "4", " ", "b", "1", "c", "3", " ", "f", "6", "e", "4", " ", "e", "1", "g", "1", " ", "b", "4", "c", "3">>,
      candidates |-> <<[uci |-> <<"b", "2", "c", "3">>, weight |-> 100]>>],
     [key |-> <<"e", "2", "e", "4", " ", "e", "7", "e", "5", " ", "g", "1", "f", "3", " ", "b", "8", "c", "6", " ", "f", "1", "c", "4", " ", "f", "8", "c", "5", " ", "c", "2", "c", "3", " ", "d", "8", "e", "7">>,
      candidates |-> <<[uci |-> <<"d", "2", "d", "4">>, weight |-> 100]>>],
     [key |-> <<"e", "2", "e", "4", " ", "e", "7", "e", "5", " ", "g", "1", "f", "3", " ", "b", "8", "c", "6", " ", "f", "1", "c", "4", " ", "f", "8", "c", "5", " ", "c", "2", "c", "3", " ", "d", "7", "d", "6">>,
      candidates |-> <<[uci |-> <<"d", "2", "d", "4">>, weight |-> 100]>>],
     [key |-> <<"e", "2", "e", "4", " ", "e", "7", "e", "5", " ", "g", "1", "f", "3", " ", "b", "8", "c", "6", " ", "f", "1", "c", "4", " ", "g", "8", "f", "6">>,
      candidates |-> <<[uci |-> <<"d", "2", "d", "3">>, weight |-> 100]>>],
     [key |-> <<"e", "2", "e", "4", " ", "e", "7", "e", "5", " ", "g", "1", "f", "3", " ", "b", "8", "c", "6", " ", "f", "1", "c", "4", " ", "g", "8", "f", "6", " ", "d", "2", "d", "3">>,
      candidates |-> <<[uci |-> <<"f", "8", "c", "5">>, weight |-> 100]>>],
     [key |-> <<"e", "2", "e", "4", " ", "e", "7", "e", "5", " ", "g", "1", "f", "3", " ", "b", "8", "c", "6", " ", "f", "1", "c", "4", " ", "g", "8", "f", "6", " ", "d", "2", "d", "3", " ", "f", "8", "c", "5">>,
      candidates |-> <<[uci |-> <<"c", "2", "c", "3">>, weight |-> 100]>>],
     [key |-> <<"e", "2", "e", "4", " ", "e", "7", "e", "5", " ", "g", "1", "f", "3", " ", "b", "8", "c", "6", " ", "f", "1", "c", "4", " ", "g", "8", "f", "6", " ", "d", "2", "d", "3", " ", "f", "8", "c", "5", " ", "c", "2", "c", "3">>,
      candidates |-> <<[uci |-> <<"d", "7", "d", "6">>, weight |-> 100]>>],
     [key |-> <<"e", "2", "e", "4", " ", "e", "7", "e", "5", " ", "g", "1", "f", "3", " ", "b", "8", "c", "6", " ", "f", "1", "c", "4", " ", "g", "8", "f", "6", " ", "d", "2", "d", "3", " ", "f", "8", "c", "5", " ", "c", "2", "c", "3", " ", "d", "7", "d", "6">>,
      candidates |-> <<[uci |-> <<"e", "1", "g", "1">>, weight |-> 100]>>],
     [key |-> <<"e", "2", "e", "4", " ", "e", "7", "e", "5", " ", "g", "1", "f", "3", " ", "b", "8", "c", "6", " ", "f", "1", "c", "4", " ", "g", "8", "f", "6", " ", "d", "2", "d", "3", " ", "f", "8", "c", "5", " ", "c", "2", "c", "3", " ", "d", "7", "d", "6", " ", "e", "1", "g", "1">>,
      candidates |-> <<[uci |-> <<"e", "8", "g", "8">>, weight |-> 100]>>],
     [key |-> <<"e", "2", "e", "4", " ", "e", "7", "e", "5", " ", "g", "1", "f", "3", " ", "b", "8", "c", "6", " ", "f", "1", "c", "4", " ", "g", "8", "f", "6", " ", "d", "2", "d", "3", " ", "f", "8", "c", "5", " ", "c", "2", "c", "3", " ", "d", "7", "d", "6", " ", "e", "1", "g", "1", " ", "e", "8", "g", "8">>,
      candidates |-> <<[uci |-> <<"b", "1", "d", "2">>, weight |-> 100]>>],
     [key |-> <<"e", "2", "e", "4", " ", "e", "7", "e", "5", " ", "g", "1", "f", "3", " ", "b", "8", "c", "6", " ", "f", "1", "c", "4", " ", "g", "8", "f", "6", " ", "d", "2", "d", "3", " ", "f", "8", "e", "7">>,
      candidates |-> <<[uci |-> <<"e", "1", "g", "1">>, weight |-> 100]>>],
     [key |-> <<"e", "2", "e", "4", " ", "e", "7", "e", "5", " ", "g", "1", "f", "3", " ", "b", "8", "c", "6", " ", "f", "1", "c", "4", " ", "g", "8", "f", "6", " ", "d", "2", "d", "3", " ", "h", "7", "h", "6">>,
      candidates |-> <<[uci |-> <<"e", "1", "g", "1">>, weight |-> 100]>>],
     [key |-> <<"e", "2", "e", "4", " ", "c", "7", "c", "6", " ", "d", "2", "d", "4">>,
      candidates |-> <<[uci |-> <<"d", "7", "d", "5">>, weight |-> 100]>>],
     [key |-> <<"e", "2", "e", "4", " ", "c", "7", "c", "6", " ", "d", "2", "d", "4", " ", "d", "7", "d", "5">>,
      candidates |-> <<[uci |-> <<"b", "1", "c", "3">>, weight |-> 100]>>],
     [key |-> <<"e", "2", "e", "4", " ", "c", "7", "c", "6", " ", "d", "2", "d", "4", " ", "d", "7", "d", "5", " ", "b", "1", "c", "3">>,
      candidates |-> <<[uci |-> <<"d", "5", "e", "4">>, weight |-> 100]>>],
     [key |-> <<"e", "2", "e", "4", " ", "c", "7", "c", "6", " ", "d", "2", "d", "4", " ", "d", "7", "d", "5", " ", "b", "1", "c", "3", " ", "d", "5", "e", "4">>,
      candidates |-> <<[uci |-> <<"c", "3", "e", "4">>, weight |-> 100]>>],
     [key |-> <<"e", "2", "e", "4", " ", "c", "7", "c", "6", " ", "d", "2", "d", "4", " ", "d", "7", "d", "5", " ", "b", "1", "c", "3", " ", "d", "5", "e", "4", " ", "c", "3", "e", "4">>,
      candidates |-> <<[uci |-> <<"c", "8", "f", "5">>, weight |-> 100]>>],
     [key |-> <<"e", "2", "e", "4", " ", "c", "7", "c", "6", " ", "d", "2", "d", "4", " ", "d", "7", "d", "5", " ", "b", "1", "c", "3", " ", "d", "5", "e", "4", " ", "c", "3", "e", "4", " ", "c", "8", "f", "5">>,
      candidates |-> <<[uci |-> <<"e", "4", "g", "3">>, weight |-> 100]>>],
     [key |-> <<"e", "2", "e", "4", " ", "c", "7", "c", "6", " ", "d", "2", "d", "4", " ", "d", "7", "d", "5", " ", "b", "1", "c", "3", " ", "d", "5", "e", "4", " ", "c", "3", "e", "4", " ", "c", "8", "f", "5", " ", "e", "4", "g", "3">>,
      candidates |-> <<[uci |-> <<"f", "5", "g", "6">>, weight |-> 100]>>],
     [key |-> <<"e", "2", "e", "4", " ", "c", "7", "c", "6", " ", "d", "2", "d", "4", " ", "d", "7", "d", "5", " ", "b", "1", "c", "3", " ", "d", "5", "e", "4", " ", "c", "3", "e", "4", " ", "c", "8", "f", "5", " ", "e", "4", "g", "3", " ", "f", "5", "g", "6">>,
      candidates |-> <<[uci |-> <<"h", "2", "h", "4">>, weight |-> 100]>>],
     [key |-> <<"e", "2", "e", "4", " ", "c", "7", "c", "6", " ", "d", "2", "d", "4", " ", "d", "7", "d", "5", " ", "b", "1", "c", "3", " ", "d", "5", "e", "4", " ", "c", "3", "e", "4", " ", "g", "8", "f", "6">>,
      candidates |-> <<[uci |-> <<"e", "4", "f", "6">>, weight |-> 100]>>],
     [key |-> <<"e", "2", "e", "4", " ", "e", "7", "e", "6", " ", "d", "2", "d", "4">>,
      candidates |-> <<[uci |-> <<"d", "7", "d", "5">>, weight |-> 100]>>],
     [key |-> <<"e", "2", "e", "4", " ", "e", "7", "e", "6", " ", "d", "2", "d", "4", " ", "d", "7", "d", "5">>,
      candidates |-> <<[uci |-> <<"b", "1", "c", "3">>, weight |-> 100]>>],
     [key |-> <<"e", "2", "e", "4", " ", "e", "7", "e", "6", " ", "d", "2", "d", "4", " ", "d", "7", "d", "5", " ", "b", "1", "c", "3">>,
      candidates |-> <<[uci |-> <<"g", "8", "f", "6">>, weight |-> 100]>>],
     [key |-> <<"e", "2", "e", "4", " ", "e", "7", "e", "6", " ", "d", "2", "d", "4", " ", "d", "7", "d", "5", " ", "b", "1", "c", "3", " ", "g", "8", "f", "6">>,
      candidates |-> <<[uci |-> <<"c", "1", "g", "5">>, weight |-> 100]>>],
     [key |-> <<"e", "2", "e", "4", " ", "e", "7", "e", "6", " ", "d", "2", "d", "4", " ", "d", "7", "d", "5", " ", "b", "1", "c", "3", " ", "g", "8", "f", "6", " ", "c", "1", "g", "5">>,
      candidates |-> <<[uci |-> <<"f", "8", "e", "7">>, weight |-> 100]>>],
     [key |-> <<"e", "2", "e", "4", " ", "e", "7", "e", "6", " ", "d", "2", "d", "4", " ", "d", "7", "d", "5", " ", "b", "1", "c", "3", " ", "g", "8", "f", "6", " ", "c", "1", "g", "5", " ", "f", "8", "e", "7">>,
      candidates |-> <<[uci |-> <<"e", "4", "e", "5">>, weight |-> 100]>>],
     [key |-> <<"e", "2", "e", "4", " ", "e", "7", "e", "6", " ", "d", "2", "d", "4", " ", "d", "7", "d", "5", " ", "b", "1", "c", "3", " ", "f", "8", "b", "4">>,
      candidates |-> <<[uci |-> <<"e", "4", "e", "5">>, weight |-> 100]>>],
     [key |-> <<"e", "2", "e", "4", " ", "c", "7", "c", "5", " ", "g", "1", "f", "3">>,
      candidates |-> <<[uci |-> <<"d", "7", "d", "6">>, weight |-> 100]>>],
     [key |-> <<"e", "2", "e", "4", " ", "c", "7", "c", "5", " ", "g", "1", "f", "3", " ", "d", "7", "d", "6">>,
      candidates |-> <<[uci |-> <<"d", "2", "d", "4">>, weight |-> 100]>>],
     [key |-> <<"e", "2", "e", "4", " ", "c", "7", "c", "5", " ", "g", "1", "f", "3", " ", "b", "8", "c", "6">>,
      candidates |-> <<[uci |-> <<"d", "2", "d", "4">>, weight |-> 100]>>],
     [key |-> <<"e", "2", "e", "4", " ", "c", "7", "c", "5", " ", "g", "1", "f", "3", " ", "e", "7", "e", "6">>,
      candidates |-> <<[uci |-> <<"d", "2", "d", "4">>, weight |-> 100]>>],
     [key |-> <<"d", "2", "d", "4">>,
      candidates |-> <<[uci |-> <<"d", "7", "d", "5">>, weight |-> 100]>>],
     [key |-> <<"e", "2", "e", "4">>,
      candidates |-> <<[uci |-> <<"c", "7", "c", "6">>, weight |-> 100]>>],
     [key |-> <<"e", "2", "e", "4", " ", "c", "7", "c", "6">>,
      candidates |-> <<[uci |-> <<"d", "2", "d", "4">>, weight |-> 100]>>],
     [key |-> <<"e", "2", "e", "4", " ", "c", "7", "c", "6", " ", "d", "2", "d", "4">>,
      candidates |-> <<[uci |-> <<"d", "7", "d", "5">>, weight |-> 100]>>],
     [key |-> <<"e", "2", "e", "4", " ", "c", "7", "c", "6", " ", "d", "2", "d", "4", " ", "d", "7", "d", "5">>,
      candidates |-> <<[uci |-> <<"b", "1", "c", "3">>, weight |-> 100]>>],
     [key |-> <<"e", "2", "e", "4", " ", "c", "7", "c", "6", " ", "d", "2", "d", "4", " ", "d", "7", "d", "5", " ", "b", "1", "c", "3">>,
      candidates |-> <<[uci |-> <<"d", "5", "e", "4">>, weight |-> 100]>>],
     [key |-> <<"e", "2", "e", "4", " ", "c", "7", "c", "6", " ", "d", "2", "d", "4", " ", "d", "7", "d", "5", " ", "b", "1", "c", "3", " ", "d", "5", "e", "4">>,
      candidates |-> <<[uci |-> <<"c", "3", "e", "4">>, weight |-> 100]>>],
     [key |-> <<"e", "2", "e", "4", " ", "c", "7", "c", "6", " ", "d", "2", "d", "4", " ", "d", "7", "d", "5", " ", "b", "1", "c", "3", " ", "d", "5", "e", "4", " ", "c", "3", "e", "4">>,
      candidates |-> <<[uci |-> <<"c", "8", "f", "5">>, weight |-> 100]>>],
     [key |-> <<"e", "2", "e", "4", " ", "c", "7", "c", "6", " ", "d", "2", "d", "4", " ", "d", "7", "d", "5", " ", "b", "1", "c", "3", " ", "d", "5", "e", "4", " ", "c", "3", "e", "4", " ", "c", "8", "f", "5">>,
      candidates |-> <<[uci |-> <<"e", "4", "g", "3">>, weight |-> 100]>>],
     [key |-> <<"e", "2", "e", "4", " ", "c", "7", "c", "6", " ", "d", "2", "d", "4", " ", "d", "7", "d", "5", " ", "b", "1", "c", "3", " ", "d", "5", "e", "4", " ", "c", "3", "e", "4", " ", "c", "8", "f", "5", " ", "e", "4", "g", "3">>,
      candidates |-> <<[uci |-> <<"f", "5", "g", "6">>, weight |-> 100]>>],
     [key |-> <<"e", "2", "e", "4", " ", "c", "7", "c", "6", " ", "d", "2", "d", "4", " ", "d", "7", "d", "5", " ", "b", "1", "c", "3", " ", "d", "5", "e", "4", " ", "c", "3", "e", "4", " ", "c", "8", "f", "5", " ", "e", "4", "g", "3", " ", "f", "5", "g", "6">>,
      candidates |-> <<[uci |-> <<"h", "2", "h", "4">>, weight |-> 100]>>],
     [key |-> <<"e", "2", "e", "4", " ", "c", "7", "c", "6", " ", "d", "2", "d", "4", " ", "d", "7", "d", "5", " ", "b", "1", "c", "3", " ", "d", "5", "e", "4", " ", "c", "3", "e", "4", " ", "c", "8", "f", "5", " ", "e", "4", "g", "3", " ", "f", "5", "g", "6", " ", "h", "2", "h", "4">>,
      candidates |-> <<[uci |-> <<"h", "7", "h", "6">>, weight |-> 100]>>],
     [key |-> <<"e", "2", "e", "4", " ", "c", "7", "c", "6", " ", "d", "2", "d", "4", " ", "d", "7", "d", "5", " ", "b", "1", "c", "3", " ", "d", "5", "e", "4", " ", "c", "3", "e", "4", " ", "c", "8", "f", "5", " ", "e", "4", "g", "3", " ", "f", "5", "g", "6", " ", "h", "2", "h", "4", " ", "h", "7", "h", "6">>,
      candidates |-> <<[uci |-> <<"g", "1", "f", "3">>, weight |-> 100]>>],
     [key |-> <<"e", "2", "e", "4", " ", "c", "7", "c", "6", " ", "d", "2", "d", "4", " ", "d", "7", "d", "5", " ", "b", "1", "c", "3", " ", "d", "5", "e", "4", " ", "c", "3", "e", "4", " ", "c", "8", "f", "5", " ", "e", "4", "g", "3", " ", "f", "5", "g", "6", " ", "h", "2", "h", "4", " ", "h", "7", "h", "6", " ", "g", "1", "f", "3">>,
      candidates |-> <<[uci |-> <<"b", "8", "d", "7">>, weight |-> 100]>>],
     [key |-> <<"e", "2", "e", "4", " ", "c", "7", "c", "6", " ", "d", "2", "d", "4", " ", "d", "7", "d", "5", " ", "b", "1", "c", "3", " ", "d", "5", "e", "4", " ", "c", "3", "e", "4", " ", "c", "8", "f", "5", " ", "e", "4", "g", "3", " ", "f", "5", "g", "6", " ", "h", "2", "h", "4", " ", "h", "7", "h", "6", " ", "g", "1", "f", "3", " ", "b", "8", "d", "7">>,
      candidates |-> <<[uci |-> <<"h", "4", "h", "5">>, weight |-> 100]>>],
     [key |-> <<"e", "2", "e", "4", " ", "c", "7", "c", "6", " ", "g", "1", "f", "3">>,
      candidates |-> <<[uci |-> <<"d", "7", "d", "5">>, weight |-> 100]>>],
     [key |-> <<"e", "2", "e", "4", " ", "c", "7", "c", "6", " ", "g", "1", "f", "3", " ", "d", "7", "d", "5">>,
      candidates |-> <<[uci |-> <<"b", "1", "c", "3">>, weight |-> 100]>>],
     [key |-> <<"e", "2", "e", "4", " ", "c", "7", "c", "6", " ", "d", "2", "d", "4", " ", "d", "7", "d", "5", " ", "e", "4", "e", "5">>,
      candidates |-> <<[uci |-> <<"c", "8", "f", "5">>, weight |-> 100]>>],
     [key |-> <<"e", "2", "e", "4", " ", "c", "7", "c", "6", " ", "d", "2", "d", "4", " ", "d", "7", "d", "5", " ", "e", "4", "e", "5", " ", "c", "8", "f", "5">>,
      candidates |-> <<[uci |-> <<"f", "1", "e", "2">>, weight |-> 100]>>],
     [key |-> <<"e", "2", "e", "4", " ", "c", "7", "c", "6", " ", "d", "2", "d", "4", " ", "d", "7", "d", "5", " ", "e", "4", "e", "5", " ", "c", "8", "f", "5", " ", "f", "1", "e", "2">>,
      candidates |-> <<[uci |-> <<"e", "7", "e", "6">>, weight |-> 100]>>],
     [key |-> <<"e", "2", "e", "4", " ", "c", "7", "c", "6", " ", "d", "2", "d", "4", " ", "d", "7", "d", "5", " ", "e", "4", "e", "5", " ", "c", "8", "f", "5", " ", "f", "1", "e", "2", " ", "e", "7", "e", "6">>,
      candidates |-> <<[uci |-> <<"g", "1", "f", "3">>, weight |-> 100]>>],
     [key |-> <<"e", "2", "e", "4", " ", "c", "7", "c", "6", " ", "d", "2", "d", "4", " ", "d", "7", "d", "5", " ", "e", "4", "e", "5", " ", "c", "8", "f", "5", " ", "g", "1", "f", "3">>,
      candidates |-> <<[uci |-> <<"e", "7", "e", "6">>, weight |-> 100]>>],
     [key |-> <<"e", "2", "e", "4", " ", "c", "7", "c", "6", " ", "d", "2", "d", "4", " ", "d", "7", "d", "5", " ", "e", "4", "e", "5", " ", "c", "8", "f", "5", " ", "g", "1", "f", "3", " ", "e", "7", "e", "6">>,
      candidates |-> <<[uci |-> <<"f", "1", "e", "2">>, weight |-> 100]>>],
     [key |-> <<"e", "2", "e", "4", " ", "c", "7", "c", "6", " ", "d", "2", "d", "4", " ", "d", "7", "d", "5", " ", "e", "4", "e", "5", " ", "c", "8", "g", "4">>,
      candidates |-> <<[uci |-> <<"f", "1", "e", "2">>, weight |-> 100]>>],
     [key |-> <<"e", "2", "e", "4", " ", "c", "7", "c", "6", " ", "b", "1", "c", "3">>,
      candidates |-> <<[uci |-> <<"d", "7", "d", "5">>, weight |-> 100]>>],
     [key |-> <<"e", "2", "e", "4", " ", "c", "7", "c", "6", " ", "b", "1", "c", "3", " ", "d", "7", "d", "5">>,
      candidates |-> <<[uci |-> <<"g", "1", "f", "3">>, weight |-> 100]>>],
     [key |-> <<"d", "2", "d", "4">>,
      candidates |-> <<[uci |-> <<"d", "7", "d", "5">>, weight |-> 100]>>],
     [key |-> <<"d", "2", "d", "4", " ", "d", "7", "d", "5">>,
      candidates |-> <<[uci |-> <<"c", "2", "c", "4">>, weight |-> 100]>>],
     [key |-> <<"d", "2", "d", "4", " ", "d", "7", "d", "5", " ", "c", "2", "c", "4">>,
      candidates |-> <<[uci |-> <<"e", "7", "e", "6">>, weight |-> 100]>>],
     [key |-> <<"d", "2", "d", "4", " ", "d", "7", "d", "5", " ", "c", "2", "c", "4", " ", "e", "7", "e", "6">>,
      candidates |-> <<[uci |-> <<"b", "1", "c", "3">>, weight |-> 100]>>],
     [key |-> <<"d", "2", "d", "4", " ", "d", "7", "d", "5", " ", "c", "2", "c", "4", " ", "e", "7", "e", "6", " ", "b", "1", "c", "3">>,
      candidates |-> <<[uci |-> <<"g", "8", "f", "6">>, weight |-> 100]>>],
     [key |-> <<"d", "2", "d", "4", " ", "d", "7", "d", "5", " ", "c", "2", "c", "4", " ", "e", "7", "e", "6", " ", "b", "1", "c", "3", " ", "g", "8", "f", "6">>,
      candidates |-> <<[uci |-> <<"g", "1", "f", "3">>, weight |-> 100]>>],
     [key |-> <<"d", "2", "d", "4", " ", "d", "7", "d", "5", " ", "c", "2", "c", "4", " ", "e", "7", "e", "6", " ", "b", "1", "c", "3", " ", "g", "8", "f", "6", " ", "g", "1", "f", "3">>,
      candidates |-> <<[uci |-> <<"c", "7", "c", "6">>, weight |-> 100]>>],
     [key |-> <<"d", "2", "d", "4", " ", "d", "7", "d", "5", " ", "c", "2", "c", "4", " ", "e", "7", "e", "6", " ", "b", "1", "c", "3", " ", "g", "8", "f", "6", " ", "g", "1", "f", "3", " ", "c", "7", "c", "6">>,
      candidates |-> <<[uci |-> <<"e", "2", "e", "3">>, weight |-> 100]>>],
     [key |-> <<"d", "2", "d", "4", " ", "d", "7", "d", "5", " ", "c", "2", "c", "4", " ", "e", "7", "e", "6", " ", "b", "1", "c", "3", " ", "g", "8", "f", "6", " ", "g", "1", "f", "3", " ", "c", "7", "c", "6", " ", "e", "2", "e", "3">>,
      candidates |-> <<[uci |-> <<"b", "8", "d", "7">>, weight |-> 100]>>],
     [key |-> <<"d", "2", "d", "4", " ", "d", "7", "d", "5", " ", "c", "2", "c", "4", " ", "e", "7", "e", "6", " ", "b", "1", "c", "3", " ", "g", "8", "f", "6", " ", "g", "1", "f", "3", " ", "c", "7", "c", "6", " ", "e", "2", "e", "3", " ", "b", "8", "d", "7">>,
      candidates |-> <<[uci |-> <<"f", "1", "d", "3">>, weight |-> 100]>>],
     [key |-> <<"d", "2", "d", "4", " ", "d", "7", "d", "5", " ", "c", "2", "c", "4", " ", "e", "7", "e", "6", " ", "b", "1", "c", "3", " ", "g", "8", "f", "6", " ", "g", "1", "f", "3", " ", "c", "7", "c", "6", " ", "e", "2", "e", "3", " ", "b", "8", "d", "7", " ", "f", "1", "d", "3">>,
      candidates |-> <<[uci |-> <<"d", "5", "c", "4">>, weight |-> 100]>>],
     [key |-> <<"d", "2", "d", "4", " ", "d", "7", "d", "5", " ", "c", "2", "c", "4", " ", "e", "7", "e", "6", " ", "b", "1", "c", "3", " ", "g", "8", "f", "6", " ", "g", "1", "f", "3", " ", "c", "7", "c", "6", " ", "e", "2", "e", "3", " ", "b", "8", "d", "7", " ", "f", "1", "d", "3", " ", "d", "5", "c", "4">>,
      candidates |-> <<[uci |-> <<"d", "3", "c", "4">>, weight |-> 100]>>],
     [key |-> <<"d", "2", "d", "4", " ", "d", "7", "d", "5", " ", "c", "2", "c", "4", " ", "e", "7", "e", "6", " ", "b", "1", "c", "3", " ", "g", "8", "f", "6", " ", "g", "1", "f", "3", " ", "c", "7", "c", "6", " ", "e", "2", "e", "3", " ", "b", "8", "d", "7", " ", "f", "1", "d", "3", " ", "d", "5", "c", "4", " ", "d", "3", "c", "4">>,
      candidates |-> <<[uci |-> <<"b", "7", "b", "5">>, weight |-> 100]>>],
     [key |-> <<"d", "2", "d", "4", " ", "d", "7", "d", "5", " ", "c", "2", "c", "4", " ", "e", "7", "e", "6", " ", "b", "1", "c", "3", " ", "g", "8", "f", "6", " ", "g", "1", "f", "3", " ", "c", "7", "c", "6", " ", "e", "2", "e", "3", " ", "b", "8", "d", "7", " ", "f", "1", "d", "3", " ", "d", "5", "c", "4", " ", "d", "3", "c", "4", " ", "b", "7", "b", "5">>,
      candidates |-> <<[uci |-> <<"c", "4", "d", "3">>, weight |-> 100]>>],
     [key |-> <<"d", "2", "d", "4", " ", "d", "7", "d", "5", " ", "c", "2", "c", "4", " ", "e", "7", "e", "6", " ", "b", "1", "c", "3", " ", "c", "7", "c", "6">>,
      candidates |-> <<[uci |-> <<"g", "1", "f", "3">>, weight |-> 100]>>],
     [key |-> <<"d", "2", "d", "4", " ", "d", "7", "d", "5", " ", "c", "2", "c", "4", " ", "e", "7", "e", "6", " ", "b", "1", "c", "3", " ", "c", "7", "c", "6", " ", "g", "1", "f", "3">>,
      candidates |-> <<[uci |-> <<"g", "8", "f", "6">>, weight |-> 100]>>],
     [key |-> <<"d", "2", "d", "4", " ", "d", "7", "d", "5", " ", "c", "2", "c", "4", " ", "e", "7", "e", "6", " ", "b", "1", "c", "3", " ", "c", "7", "c", "6", " ", "e", "2", "e", "3">>,
      candidates |-> <<[uci |-> <<"g", "8", "f", "6">>, weight |-> 100]>>],
     [key |-> <<"d", "2", "d", "4", " ", "d", "7", "d", "5", " ", "c", "2", "c", "4", " ", "e", "7", "e", "6", " ", "b", "1", "c", "3", " ", "c", "7", "c", "6", " ", "e", "2", "e", "3", " ", "g", "8", "f", "6">>,
      candidates |-> <<[uci |-> <<"g", "1", "f", "3">>, weight |-> 100]>>],
     [key |-> <<"d", "2", "d", "4", " ", "d", "7", "d", "5", " ", "c", "2", "c", "4", " ", "e", "7", "e", "6", " ", "b", "1", "c", "3", " ", "g", "8", "f", "6", " ", "g", "1", "f", "3", " ", "c", "7", "c", "6", " ", "c", "1", "g", "5">>,
      candidates |-> <<[uci |-> <<"h", "7", "h", "6">>, weight |-> 100]>>],
     [key |-> <<"d", "2", "d", "4", " ", "d", "7", "d", "5", " ", "c", "2", "c", "4", " ", "e", "7", "e", "6", " ", "b", "1", "c", "3", " ", "g", "8", "f", "6", " ", "c", "1", "g", "5">>,
      candidates |-> <<[uci |-> <<"h", "7", "h", "6">>, weight |-> 100]>>],
     [key |-> <<"d", "2", "d", "4", " ", "d", "7", "d", "5", " ", "g", "1", "f", "3">>,
      candidates |-> <<[uci |-> <<"g", "8", "f", "6">>, weight |-> 100]>>],
     [key |-> <<"d", "2", "d", "4", " ", "d", "7", "d", "5", " ", "g", "1", "f", "3", " ", "g", "8", "f", "6">>,
      candidates |-> <<[uci |-> <<"c", "2", "c", "4">>, weight |-> 100]>>],
     [key |-> <<"d", "2", "d", "4", " ", "d", "7", "d", "5", " ", "g", "1", "f", "3", " ", "g", "8", "f", "6", " ", "c", "2", "c", "4">>,
      candidates |-> <<[uci |-> <<"e", "7", "e", "6">>, weight |-> 100]>>],
     [key |-> <<"d", "2", "d", "4", " ", "d", "7", "d", "5", " ", "g", "1", "f", "3", " ", "g", "8", "f", "6", " ", "c", "1", "f", "4">>,
      candidates |-> <<[uci |-> <<"c", "7", "c", "5">>, weight |-> 100]>>],
     [key |-> <<"d", "2", "d", "4", " ", "d", "7", "d", "5", " ", "c", "1", "f", "4">>,
      candidates |-> <<[uci |-> <<"g", "8", "f", "6">>, weight |-> 100]>>],
     [key |-> <<"d", "2", "d", "4", " ", "g", "8", "f", "6">>,
      candidates |-> <<[uci |-> <<"c", "2", "c", "4">>, weight |-> 100]>>],
     [key |-> <<"d", "2", "d", "4", " ", "g", "8", "f", "6", " ", "c", "2", "c", "4">>,
      candidates |-> <<[uci |-> <<"e", "7", "e", "6">>, weight |-> 100]>>],
     [key |-> <<"d", "2", "d", "4", " ", "g", "8", "f", "6", " ", "c", "2", "c", "4", " ", "e", "7", "e", "6">>,
      candidates |-> <<[uci |-> <<"g", "1", "f", "3">>, weight |-> 100]>>],
     [key |-> <<"d", "2", "d", "4", " ", "g", "8", "f", "6", " ", "c", "2", "c", "4", " ", "e", "7", "e", "6", " ", "g", "1", "f", "3">>,
      candidates |-> <<[uci |-> <<"d", "7", "d", "5">>, weight |-> 100]>>],
     [key |-> <<"d", "2", "d", "4", " ", "g", "8", "f", "6", " ", "g", "1", "f", "3">>,
      candidates |-> <<[uci |-> <<"e", "7", "e", "6">>, weight |-> 100]>>],
     [key |-> <<"d", "2", "d", "4", " ", "g", "8", "f", "6", " ", "g", "1", "f", "3", " ", "e", "7", "e", "6">>,
      candidates |-> <<[uci |-> <<"c", "2", "c", "4">>, weight |-> 100]>>],
     [key |-> <<"d", "2", "d", "4", " ", "g", "8", "f", "6", " ", "c", "1", "f", "4">>,
      candidates |-> <<[uci |-> <<"d", "7", "d", "5">>, weight |-> 100]>>],
     [key |-> <<"c", "2", "c", "4">>,
      candidates |-> <<[uci |-> <<"e", "7", "e", "6">>, weight |-> 100]>>],
     [key |-> <<"c", "2", "c", "4", " ", "e", "7", "e", "6">>,
      candidates |-> <<[uci |-> <<"d", "2", "d", "4">>, weight |-> 100]>>],
     [key |-> <<"c", "2", "c", "4", " ", "e", "7", "e", "6", " ", "d", "2", "d", "4">>,
      candidates |-> <<[uci |-> <<"d", "7", "d", "5">>, weight |-> 100]>>],
     [key |-> <<"c", "2", "c", "4", " ", "e", "7", "e", "6", " ", "d", "2", "d", "4", " ", "d", "7", "d", "5">>,
      candidates |-> <<[uci |-> <<"b", "1", "c", "3">>, weight |-> 100]>>],
     [key |-> <<"c", "2", "c", "4", " ", "e", "7", "e", "6", " ", "g", "1", "f", "3">>,
      candidates |-> <<[uci |-> <<"d", "7", "d", "5">>, weight |-> 100]>>],
     [key |-> <<"c", "2", "c", "4", " ", "e", "7", "e", "6", " ", "g", "1", "f", "3", " ", "d", "7", "d", "5">>,
      candidates |-> <<[uci |-> <<"d", "2", "d", "4">>, weight |-> 100]>>],
     [key |-> <<"c", "2", "c", "4", " ", "e", "7", "e", "6", " ", "b", "1", "c", "3">>,
      candidates |-> <<[uci |-> <<"d", "7", "d", "5">>, weight |-> 100]>>],
     [key |-> <<"c", "2", "c", "4", " ", "e", "7", "e", "6", " ", "g", "2", "g", "3">>,
      candidates |-> <<[uci |-> <<"d", "7", "d", "5">>, weight |-> 100]>>],
     [key |-> <<"g", "1", "f", "3">>,
      candidates |-> <<[uci |-> <<"d", "7", "d", "5">>, weight |-> 100]>>],
     [key |-> <<"g", "1", "f", "3", " ", "d", "7", "d", "5">>,
      candidates |-> <<[uci |-> <<"d", "2", "d", "4">>, weight |-> 100]>>],
     [key |-> <<"g", "1", "f", "3", " ", "d", "7", "d", "5", " ", "d", "2", "d", "4">>,
      candidates |-> <<[uci |-> <<"g", "8", "f", "6">>, weight |-> 100]>>],
     [key |-> <<"g", "1", "f", "3", " ", "d", "7", "d", "5", " ", "d", "2", "d", "4", " ", "g", "8", "f", "6">>,
      candidates |-> <<[uci |-> <<"c", "2", "c", "4">>, weight |-> 100]>>],
     [key |-> <<"g", "1", "f", "3", " ", "d", "7", "d", "5", " ", "c", "2", "c", "4">>,
      candidates |-> <<[uci |-> <<"e", "7", "e", "6">>, weight |-> 100]>>],
     [key |-> <<"g", "1", "f", "3", " ", "d", "7", "d", "5", " ", "c", "2", "c", "4", " ", "e", "7", "e", "6">>,
      candidates |-> <<[uci |-> <<"d", "2", "d", "4">>, weight |-> 100]>>],
     [key |-> <<"g", "1", "f", "3", " ", "d", "7", "d", "5", " ", "g", "2", "g", "3">>,
      candidates |-> <<[uci |-> <<"c", "7", "c", "6">>, weight |-> 100]>>]
  >>

\* the entries of the initializer list as a set
DeterministicEntries == {deterministic_book_entries[i] : i \in 1..Len(deterministic_book_entries)}

\* the tables std::unordered_map's constructor can build of the list: one
\* entry per key, and of several entries with one key it is unspecified
\* which is kept
BookTablesOf(entries) ==
  LET fixed == {e \in entries : \A f \in entries : f.key = e.key => f = e}
  IN {fixed \cup kept :
        kept \in {K \in SUBSET (entries \ fixed) :
                    \A e \in entries \ fixed : \E f \in K : f.key = e.key /\ \A g \in K : g.key = e.key => g = f}}

\* the first candidate of cands at or after i that is legal (empty: none)
RECURSIVE FirstLegalCandidate(_, _, _)
FirstLegalCandidate(cands, legal_uci, i) ==
  IF i > Len(cands) THEN {}
  ELSE IF \E k \in 1..Len(legal_uci) : legal_uci[k] = cands[i].uci THEN {cands[i].uci}
  ELSE FirstLegalCandidate(cands, legal_uci, i + 1)

\* opening_book_pick of opening_book_deterministic.cpp on the table built
\* (empty: nullopt)
opening_book_pick_deterministic(table, hist, legal_uci) ==
  LET key == make_key(hist)
      found == {e \in table : e.key = key}
  IN IF found = {} THEN {}
     ELSE FirstLegalCandidate((CHOOSE e \in found : TRUE).candidates, legal_uci, 1)

\* the position commands the engine with the deterministic book is sent
DeterministicCmds ==
  {PositionCmd("startpos", START_FEN, << >>),
   PositionCmd("startpos", START_FEN, <<Uci("e", "2", "e", "4")>>),
   PositionCmd("startpos", START_FEN, <<Uci("d", "2", "d", "4")>>),
   PositionCmd("startpos", START_FEN, <<Uci("e", "2", "e", "4"), Uci("c", "7", "c", "6")>>),
   PositionCmd("startpos", START_FEN, <<Uci("a", "2", "a", "3")>>),
   PositionCmd("startpos", START_FEN, <<Uci("h", "2", "h", "3")>>),
   PositionCmd("fen", MiddleFen, << >>)}

\* main, UCI mode, in a build that links opening_book_deterministic.cpp
DeterministicInit ==
  /\ mode = "uci"
  /\ board = Board_set_fen(NewBoard, START_FEN).board
  /\ frames = << >>
  /\ move_history = << >>
  /\ goOut = NoGo
  /\ lastOp = [NoOp EXCEPT !.op = "set_fen"]
  /\ nCmds = 0
  /\ bookTable \in BookTablesOf(DeterministicEntries)
  /\ client = Null /\ node = Null /\ budget = Null /\ resolved = Null /\ ttScore = Null
  /\ ServiceOff
  /\ SearchOff

\* main, "go": [out, board], with the deterministic book
DeterministicGoTexts(g, legal_uci, hist) ==
  [out |-> GoLegal(g.board, g.out, legal_uci, hist,
                   opening_book_pick_deterministic(bookTable, hist, legal_uci)),
   board |-> g.board]

DeterministicGoGen(g, hist) ==
  DeterministicGoTexts(g, [i \in 1..Len(g.out) |-> move_to_uci(g.out[i])], hist)

DeterministicGo ==
  /\ mode = "uci"
  /\ nCmds < MaxCmds
  /\ nCmds' = nCmds + 1
  /\ UciWent(DeterministicGoGen(Board_gen_legal(board), move_history))
  /\ lastOp' = [NoOp EXCEPT !.op = "go"]
  /\ UNCHANGED <<mode, frames, move_history, serviceVars, searchVars, unitVars>>

DeterministicNext ==
  \/ \E cmd \in DeterministicCmds : UciPosition(cmd)
  \/ DeterministicGo

DeterministicSpec == DeterministicInit /\ [][DeterministicNext]_vars

\* C24: the deterministic book answers a go after "position startpos moves
\* e2e4" with c7c6 and a go after "position startpos moves d2d4" with d7d5,
\* printed as a book hit, in every build and whatever was asked before
C24_OneFixedReply ==
  lastOp.op = "go" =>
    /\ move_history = <<Uci("e", "2", "e", "4")>> =>
         goOut = [bookhit |-> TRUE, bestmove |-> Uci("c", "7", "c", "6")]
    /\ move_history = <<Uci("d", "2", "d", "4")>> =>
         goOut = [bookhit |-> TRUE, bestmove |-> Uci("d", "7", "d", "5")]

\* ----------------------------------------- the weighted book off its lines
\* the position commands that leave the lines of the weighted book
WeightedCmds ==
  {PositionCmd("startpos", START_FEN, << >>),
   PositionCmd("startpos", START_FEN, <<Uci("e", "2", "e", "4")>>),
   PositionCmd("startpos", START_FEN, <<Uci("a", "2", "a", "3"), Uci("a", "7", "a", "6")>>),
   PositionCmd("startpos", START_FEN, <<Uci("e", "2", "e", "4"), Uci("a", "7", "a", "6"), Uci("a", "2", "a", "3")>>),
   PositionCmd("startpos", START_FEN, <<Uci("a", "2", "a", "3")>>),
   PositionCmd("startpos", START_FEN, <<Uci("h", "2", "h", "3")>>),
   PositionCmd("startpos", START_FEN, <<Uci("b", "2", "b", "3")>>),
   PositionCmd("fen", MiddleFen, << >>)}

WeightedNext ==
  \/ \E cmd \in WeightedCmds : UciPosition(cmd)
  \/ UciGo

WeightedSpec == UciInit /\ [][WeightedNext]_vars

\* the pick the claim describes: that of the longest of hist, hist without
\* its last two plies, ... down to the empty history, that yields a legal move
RECURSIVE PrefixPick(_, _)
PrefixPick(hist, legal_uci) ==
  IF opening_book_pick_text(hist, legal_uci) # {} THEN opening_book_pick_text(hist, legal_uci)
  ELSE IF Len(hist) < 2 THEN {}
  ELSE PrefixPick(SubSeq(hist, 1, Len(hist) - 2), legal_uci)

\* go printed a book hit of claimed wherever main would print every move of it
PrefixPickPrinted(g, legal_uci, claimed) ==
  (/\ claimed # {}
   /\ Len(move_history) <= BOOK_MAX_PLIES
   /\ ~has_critical_tactics_board(g.board, g.out)
   /\ \A bk \in claimed : BookMoveValid(g.board, g.out, legal_uci, Len(move_history), bk))
    => goOut.bookhit /\ goOut.bestmove \in claimed

PrefixPickAt(g, legal_uci) == PrefixPickPrinted(g, legal_uci, PrefixPick(move_history, legal_uci))

\* C25: a go whose history is not a key of the weighted book, or has no legal
\* candidate there, is answered from the book entry of the history shortened
\* by two plies at a time, so it prints a book hit whenever such a prefix
\* has a legal candidate that main accepts
C25_PrefixFallback ==
  lastOp.op = "go" =>
    LET g == Board_gen_legal(board)
    IN PrefixPickAt(g, [i \in 1..Len(g.out) |-> move_to_uci(g.out[i])])

\* ------------------------------------------------- the Hash of the primary
\* the commands a step appends to the stdin of the primary
WrittenToEngine ==
  IF Len(proc'["engine"].stdin) > Len(proc["engine"].stdin)
  THEN SubSeq(proc'["engine"].stdin, Len(proc["engine"].stdin) + 1, Len(proc'["engine"].stdin))
  ELSE << >>

\* the hash_mb request r resolved is defined and is not currentHashMb
HashDiffers(r) ==
  /\ resolveMoveOptions(req[r].body).hash_mb # 0
  /\ resolveMoveOptions(req[r].body).hash_mb # currentHashMb

\* readyok has resolved the wait of the task of request r
GotReadyok(r) ==
  /\ req[r].pc = "resume" /\ req[r].at = "readyok" /\ req[r].e = "none"
  /\ req[r].best.kind = "readyok"

\* the callback of the task of move request r starts to run in this step
MoveTaskStarts(r) ==
  /\ req[r].endpoint = "move" /\ req[r].pc = "queued"
  /\ req'[r].started /\ req'[r].pc \in {"await", "resume"}

\* C31: a move task writes setoption name Hash value N and isready if and
\* only if its resolved hash_mb is defined and differs from currentHashMb (it
\* writes position and go at once otherwise); position and go of such a task
\* are written only after readyok was received; currentHashMb changes only
\* then, and to N; when the wait for readyok times out currentHashMb is left
\* alone and the task writes nothing more
C31_HashBeforePosition ==
  [][/\ \A r \in Reqs :
          MoveTaskStarts(r) /\ proc["engine"].status = "run" =>
            LET w == WrittenToEngine
            IN /\ Len(w) = 2 /\ w[1].by = r /\ w[2].by = r
               /\ IF HashDiffers(r)
                  THEN /\ w[1].cmd = "setoption" /\ w[1].n = resolveMoveOptions(req[r].body).hash_mb
                       /\ w[2].cmd = "isready"
                  ELSE w[1].cmd = "position" /\ w[2].cmd = "go"
     /\ \A i \in 1..Len(WrittenToEngine) :
          LET cmd == WrittenToEngine[i]
          IN cmd.cmd \in {"position", "go"} /\ req[cmd.by].endpoint = "move" =>
               \/ MoveTaskStarts(cmd.by) /\ ~HashDiffers(cmd.by)
               \/ GotReadyok(cmd.by)
     /\ \A r \in MoveReqs :
          GotReadyok(r) /\ req'[r] # req[r] =>
            /\ currentHashMb' = resolveMoveOptions(req[r].body).hash_mb
            /\ proc["engine"].status = "run" =>
                 /\ Len(WrittenToEngine) = 2
                 /\ WrittenToEngine[1].cmd = "position" /\ WrittenToEngine[2].cmd = "go"
     /\ currentHashMb' # currentHashMb => \E r \in MoveReqs : GotReadyok(r) /\ req'[r] # req[r]
     /\ \A r \in MoveReqs :
          req[r].pc = "resume" /\ req[r].at = "readyok" /\ req[r].e # "none" /\ req'[r] # req[r] =>
            /\ currentHashMb' = currentHashMb
            /\ WrittenToEngine = << >>
            /\ req'[r].pc = "done"]_vars

C31_Witness ==
  /\ currentHashMb # DefaultHashMb
  /\ \E r \in MoveReqs :
       /\ req[r].pc = "done" /\ req[r].at = "readyok" /\ req[r].e = "engine timeout"
       /\ resolveMoveOptions(req[r].body).hash_mb # currentHashMb
       /\ \A i \in 1..Len(proc["engine"].stdin) : proc["engine"].stdin[i].by # r

\* the Hash size the child p has once it has read the commands cmds
RECURSIVE HashOnceRead(_, _)
HashOnceRead(hash, cmds) ==
  IF cmds = << >> THEN hash
  ELSE HashOnceRead(IF Head(cmds).cmd = "setoption" THEN Max(1, Head(cmds).n) ELSE hash, Tail(cmds))

\* C32: between the tasks of the primary, currentHashMb is the Hash size the
\* running engine has once it has read every command written to it so far
C32_CurrentHashIsEngineHash ==
  proc["engine"].status = "run" /\ Bodies("engine") = {} =>
    currentHashMb = HashOnceRead(proc["engine"].hash, proc["engine"].stdin)

\* ------------------------------------------------ the position command
\* the moves applied in turn to b, each of them legal where it is played
RECURSIVE StrictReplay(_, _)
StrictReplayNext(a, moves) ==
  IF a.ok THEN StrictReplay(a.board, Tail(moves)) ELSE [ok |-> FALSE, board |-> a.board]

StrictReplay(b, moves) ==
  IF moves = << >> THEN [ok |-> TRUE, board |-> b]
  ELSE StrictReplayNext(apply_uci_move_board(b, Head(moves)), moves)

\* the position the arguments of cmd describe, if they describe one: a FEN
\* of six fields that set_fen accepts, then the moves, every one legal
DescribedBy(cmd, set) ==
  IF cmd.kind = "fen" /\ cmd.fen.fields < 6 THEN [ok |-> FALSE, board |-> set.board]
  ELSE IF ~set.ok THEN set
  ELSE StrictReplay(set.board, cmd.moves)

Installs(cmd, d) == d.ok /\ board' = d.board /\ move_history' = cmd.moves

\* C33: a position command installs the position and the move history its
\* arguments describe, or leaves the board (squares, side, castling rights,
\* en-passant square, clocks, key, key history) and the move history as they
\* were
C33_PositionAtomic ==
  [][\A cmd \in PositionCmds :
       UciPosition(cmd) =>
         \/ Installs(cmd, DescribedBy(cmd, Board_set_fen(board, IF cmd.kind = "startpos" THEN START_FEN ELSE cmd.fen)))
         \/ UNCHANGED <<board, move_history>>]_vars

\* ------------------------------------------- the book after position fen
\* king and e-pawn against king: e2e4 is legal and nothing can be captured
\*   4k3/8/8/8/8/8/4P3/4K3 w - - 0 1
PawnEndingFen ==
  [fields |-> 6,
   placement |-> <<"4", "k", "3", "/", "8", "/", "8", "/", "8", "/", "8", "/", "8", "/", "4", "P", "3", "/", "4", "K", "3">>,
   stm |-> "w", cast |-> <<"-">>, eps |-> <<"-">>,
   halfmove |-> [isInt |-> TRUE, val |-> 0], fullmove |-> [isInt |-> TRUE, val |-> 1]]

\* the position commands of a service whose callers send a FEN or the moves
FenCmds ==
  {PositionCmd("startpos", START_FEN, << >>),
   PositionCmd("startpos", START_FEN, <<Uci("e", "2", "e", "4")>>),
   PositionCmd("startpos", START_FEN, <<Uci("a", "2", "a", "3")>>),
   PositionCmd("startpos", START_FEN, <<Uci("h", "2", "h", "3")>>),
   PositionCmd("startpos", START_FEN, <<Uci("b", "2", "b", "3")>>),
   PositionCmd("fen", START_FEN, << >>),
   PositionCmd("fen", PawnEndingFen, << >>),
   PositionCmd("fen", MiddleFen, << >>)}

FenNext ==
  \/ \E cmd \in FenCmds : UciPosition(cmd)
  \/ UciGo

FenSpec == UciInit /\ [][FenNext]_vars

\* the boards hold the same position
SamePosition(a, b) ==
  a.sq = b.sq /\ a.side = b.side /\ a.castling = b.castling /\ a.ep = b.ep

\* C34: when go answers with a book move, the board is the start position
\* with move_history played on it
C34_BookOnlyOnReplayedStart ==
  lastOp.op = "go" /\ goOut.bookhit =>
    LET d == StrictReplay(Board_set_fen(NewBoard, START_FEN).board, move_history)
    IN d.ok /\ SamePosition(board, d.board)

\* ------------------------------------------- two moves with one request id
\* the task of move request r has not run yet
NotYetRun(r) == req[r].endpoint = "move" /\ req[r].pc = "queued" /\ ~req[r].started

\* C35: while the task of a move request has not run, no info or bestmove
\* line is recorded in the state object of that request, and the status
\* endpoint does not answer that the request is finished
C35_SameIdNoInterference ==
  /\ [](\A r \in Reqs :
          NotYetRun(r) =>
            state[r].active /\ state[r].bestmove = "null" /\ ~state[r].lastInfo.set)
  /\ [][\A r \in Reqs :
          /\ statusRes' # statusRes /\ statusRes'.status = 200
          /\ requestStates'[statusRes'.id] = r /\ NotYetRun(r)
          => statusRes'.active /\ statusRes'.finishedAt = 0]_vars

\* ------------------------------------- the waiters of a handler that ended
\* the waiters of W not tagged with requestId, in their order
RECURSIVE TaggedOtherwise(_, _)
TaggedOtherwise(W, requestId) ==
  IF W = << >> THEN << >>
  ELSE (IF Head(W).requestId = requestId THEN << >> ELSE <<Head(W)>>) \o TaggedOtherwise(Tail(W), requestId)

\* C36: once the finally block of a handler has called
\* cleanupWaitersForRequest with the id of its request, the FIFO holds no
\* waiter tagged with that id, and the waiters tagged with any other id
\* ("system" included) are all there still, in their order
C36_CleanupOnlyThatRequest ==
  [][\A requestId \in WaitRequestIds :
       ClientCleanup(requestId) =>
         /\ \A i \in 1..Len(client'.waiters) : client'.waiters[i].requestId # requestId
         /\ client'.waiters = TaggedOtherwise(client.waiters, requestId)]_vars

C36_Witness ==
  /\ \E id \in client.timers :
       /\ client.calls[id] = << >>
       /\ \A i \in 1..Len(client.waiters) : client.waiters[i].id # id
  /\ \E i \in 1..Len(client.waiters) : client.waiters[i].requestId = 0
  /\ \A i \in 1..Len(client.waiters) : client.waiters[i].requestId = 0

\* -------------------------------------------------- the transient observers
\* C37: the observers a client has besides the permanent one of the primary
\* are those of the task running on it, at most one; when no task runs on
\* a client it has none
C37_ObserversOfRunningTask ==
  \A c \in Clients :
    /\ onLineHandlers[c] \subseteq Bodies(c)
    /\ Cardinality(onLineHandlers[c]) <= 1
    /\ Bodies(c) = {} => onLineHandlers[c] = {}

C37_Witness ==
  /\ \A c \in Clients : Bodies(c) = {} /\ onLineHandlers[c] = {}
  /\ \E r \in Reqs : req[r].pc = "done" /\ req[r].started /\ req[r].e = "none" /\ req[r].at = "bestmove"
  /\ \E r \in Reqs : req[r].pc = "done" /\ req[r].started /\ req[r].e # "none" /\ req[r].at # "queue"

\* ------------------------------------------- resolveMoveOptions on JS values
\* A value of a JSON body as JavaScript sees it. A number is held in halves
\* (twice = 2 * value) so that fractions take part; text is the content of a
\* string, or the printed form of an array or object.
JsValue(t, twice, text) == [t |-> t, twice |-> twice, text |-> text]

Undefined == JsValue("undefined", 0, "")

JsNumber(twice) == JsValue("number", twice, "")

NaN == JsValue("NaN", 0, "")

JsString(text) == JsValue("string", 0, text)

\* StringToNumber of the texts the payloads use
StringNumber(text) ==
  CASE text = ""         -> JsNumber(0)
    [] text = " "        -> JsNumber(0)
    [] text = "0"        -> JsNumber(0)
    [] text = "300"      -> JsNumber(600)
    [] text = "-300"     -> JsNumber(-600)
    [] text = "2.5"      -> JsNumber(5)
    [] text = "700"      -> JsNumber(1400)
    [] text = "Infinity" -> JsValue("Infinity", 0, "")
    [] OTHER             -> NaN

\* Number(value)
ToNumber(value) ==
  CASE value.t = "undefined" -> NaN
    [] value.t = "null"      -> JsNumber(0)
    [] value.t = "boolean"   -> JsNumber(IF value.text = "true" THEN 2 ELSE 0)
    [] value.t = "string"    -> StringNumber(value.text)
    [] value.t = "object"    -> StringNumber(value.text)
    [] OTHER                 -> value

\* Number.isFinite(n)
IsFinite(n) == n.t = "number"

\* a ?? b
Nullish(a, b) == IF a.t \in {"undefined", "null"} THEN b ELSE a

\* zero passes for positive
toPositiveIntOrZero(value) ==
  IF value.t \in {"undefined", "null"} \/ value = JsString("") THEN Undefined
  ELSE LET n == ToNumber(value)
       IN IF ~IsFinite(n) THEN Undefined
          ELSE LET i == JsNumber(2 * (n.twice \div 2))
               IN IF i.twice >= 0 THEN i ELSE Undefined

\* toPositiveInt(value), on JS values
toPositiveIntOf(value) ==
  IF value.t \in {"undefined", "null"} \/ value = JsString("") THEN Undefined
  ELSE LET n == ToNumber(value)
       IN IF ~IsFinite(n) THEN Undefined
          ELSE LET i == JsNumber(2 * (n.twice \div 2))
               IN IF i.twice > 0 THEN i ELSE Undefined

\* text.toLowerCase().trim() of the skill texts the payloads use
LowerTrim(text) ==
  CASE text = " Strong " -> "strong"
    [] text = "BLITZ"    -> "blitz"
    [] OTHER             -> text

PresetNames == {"blitz", "rapid", "strong"}

\* preset?.[field]: SKILL_PRESETS has the three presets; every other key,
\* one inherited from Object.prototype included, has none of the fields
PresetField(skillRaw, field) ==
  IF skillRaw \in PresetNames /\ SKILL_PRESETS(skillRaw)[field] # 0
  THEN JsNumber(2 * SKILL_PRESETS(skillRaw)[field])
  ELSE Undefined

\* resolveMoveOptions(payload), on JS values; skill "" stands for undefined
resolveMoveOptionsOf(payload) ==
  LET skillRaw == IF payload.skill.t = "string" THEN LowerTrim(payload.skill.text) ELSE ""
  IN [movetime_ms |-> Nullish(toPositiveIntOf(payload.movetime_ms),
                              Nullish(PresetField(skillRaw, "movetime_ms"), JsNumber(400))),
      depth       |-> Nullish(toPositiveIntOf(payload.depth), PresetField(skillRaw, "depth")),
      hash_mb     |-> Nullish(toPositiveIntOf(payload.hash_mb), PresetField(skillRaw, "hash_mb")),
      skill       |-> skillRaw]

\* POST /api/move, the check on the resolved movetime
MovetimeCheck(opts) ==
  LET numericMoveTime == ToNumber(opts.movetime_ms)
  IN IF ~IsFinite(numericMoveTime) \/ numericMoveTime.twice <= 0
     THEN "INVALID_MOVETIME" ELSE "ok"

MovetimeValues ==
  {Undefined, JsValue("null", 0, ""), NaN, JsValue("Infinity", 0, ""),
   JsValue("-Infinity", 0, ""),
   JsValue("boolean", 0, "true"), JsValue("boolean", 0, "false"),
   JsValue("object", 0, "[object Object]"), JsValue("object", 0, "700"),
   JsValue("object", 0, "")}
  \cup {JsNumber(k) : k \in {-600, -1, 0, 1, 2, 5, 600, 2000000000}}
  \cup {JsString(s) : s \in {"", " ", "0", "300", "-300", "2.5", "abc", "Infinity"}}

SkillValues ==
  {Undefined, JsNumber(2), JsValue("object", 0, "strong")}
  \cup {JsString(s) : s \in {"", "blitz", "rapid", "strong", " Strong ", "BLITZ",
                              "expert", "constructor"}}

DepthValues == {Undefined, JsNumber(12), JsNumber(-2)}

Payloads ==
  [movetime_ms : MovetimeValues, skill : SkillValues, depth : DepthValues,
   hash_mb : {Undefined}]

NoResolved == [done |-> FALSE, payload |-> Null, opts |-> Null, code |-> ""]

OptsInit ==
  /\ resolved = NoResolved
  /\ client = Null /\ node = Null /\ budget = Null /\ bookTable = Null /\ ttScore = Null
  /\ ServiceOff /\ BoardOff /\ SearchOff

\* the head of the /api/move handler: resolve the options, check the movetime
ResolveOptions(payload) ==
  /\ resolved' = [done |-> TRUE, payload |-> payload,
                  opts |-> resolveMoveOptionsOf(payload),
                  code |-> MovetimeCheck(resolveMoveOptionsOf(payload))]
  /\ UNCHANGED <<client, node, budget, bookTable, ttScore, serviceVars, engineVars>>

OptsNext == \E payload \in Payloads : ResolveOptions(payload)

OptsSpec == OptsInit /\ [][OptsNext]_vars

\* the caller's movetime_ms as a number of at least 1
CallerGave(payload) ==
  /\ payload.movetime_ms.t \notin {"undefined", "null"}
  /\ payload.movetime_ms # JsString("")
  /\ IsFinite(ToNumber(payload.movetime_ms))
  /\ ToNumber(payload.movetime_ms).twice >= 2

\* the preset the payload's skill names, "" for none
PresetOf(payload) ==
  IF payload.skill.t = "string" /\ LowerTrim(payload.skill.text) \in PresetNames
  THEN LowerTrim(payload.skill.text) ELSE ""

\* C38: for every request body the resolved movetime_ms is a positive
\* integer: the integer part of the caller's value when that value is a
\* number of at least 1, else the movetime of the preset the skill names,
\* else 200; the handler's check on it never answers INVALID_MOVETIME, so a
\* zero, negative or non-numeric movetime_ms is replaced, not rejected
C38_MovetimeAlwaysPositive ==
  resolved.done =>
    LET payload == resolved.payload
        got == resolved.opts.movetime_ms
    IN /\ got.t = "number" /\ got.twice > 0 /\ got.twice % 2 = 0
       /\ resolved.code = "ok"
       /\ got.twice =
            IF CallerGave(payload)
            THEN 2 * (ToNumber(payload.movetime_ms).twice \div 2)
            ELSE IF PresetOf(payload) # ""
                 THEN 2 * SKILL_PRESETS(PresetOf(payload)).movetime_ms
                 ELSE 400

\* a negative movetime_ms with skill "rapid" was replaced by the preset's 700
C38_Witness ==
  /\ resolved.done
  /\ resolved.payload.movetime_ms = JsNumber(-600)
  /\ resolved.payload.skill = JsString("rapid")
  /\ resolved.opts.movetime_ms = JsNumber(1400)
  /\ resolved.code = "ok"

\* ------------------------------------------- castling rights over make_move
\* both sides can castle on both wings, the h-file is open and the a-pawns
\* can move
\*   r3k2r/p7/8/8/8/8/P7/R3K2R w KQkq - 0 1
CornerFen ==
  [fields |-> 6,
   placement |-> <<"r", "3", "k", "2", "r", "/", "p", "7", "/", "8", "/", "8", "/", "8", "/", "8", "/", "P", "7", "/", "R", "3", "K", "2", "R">>,
   stm |-> "w", cast |-> <<"K", "Q", "k", "q">>, eps |-> <<"-">>,
   halfmove |-> [isInt |-> TRUE, val |-> 0], fullmove |-> [isInt |-> TRUE, val |-> 1]]

\* perft from the positions in which the rights are at stake
CastleInit ==
  /\ mode = "perft"
  /\ \E fen \in {CornerFen, TransitFen} : board = Board_set_fen(NewBoard, fen).board
  /\ frames = << >>
  /\ move_history = << >>
  /\ goOut = NoGo
  /\ lastOp = [NoOp EXCEPT !.op = "set_fen"]
  /\ nCmds = 0
  /\ ServiceOff
  /\ SearchOff
  /\ UnitOff

CastleNext == PerftMake \/ PerftUnmake

CastleSpec == CastleInit /\ [][CastleNext]_vars

CastleBits == {1, 2, 4, 8}

\* the right that belongs to the corner square s, 0 for any other square
CornerBit(s) == CASE s = 0 -> 2 [] s = 7 -> 1 [] s = 56 -> 8 [] s = 63 -> 4 [] OTHER -> 0

\* the rights the claim says the move m clears on the board b
ClaimedCleared(b, m) ==
  (IF abs_piece(b.sq[m.from]) = KING
   THEN (IF color_of(b.sq[m.from]) = WHITE THEN {1, 2} ELSE {4, 8}) ELSE {})
  \cup (IF abs_piece(b.sq[m.from]) = ROOK THEN {CornerBit(m.from)} ELSE {})
  \cup (IF b.sq[m.to] # 0 /\ abs_piece(b.sq[m.to]) = ROOK THEN {CornerBit(m.to)} ELSE {})

\* the step is a make_move of perft
MakeStep == lastOp'.op = "make" /\ Len(frames') = Len(frames) + 1

\* C39: make_move never sets a castling right, and clears exactly these: both
\* rights of the mover's colour on a king move, the corner's right when a rook
\* leaves a corner, the corner's right when a rook is captured on a corner;
\* every other right stays as it was
C39_CastlingRightsOnlyCleared ==
  [][MakeStep =>
       \A bit \in CastleBits :
          /\ HasBit(board'.castling, bit) => HasBit(board.castling, bit)
          /\ HasBit(board'.castling, bit) <=>
               HasBit(board.castling, bit) /\ bit \notin ClaimedCleared(board, lastOp'.m)]_vars

\* white's rook took the rook on h8, which cleared the two rights of the
\* h-corners, and black's king stepped out of the check, which cleared
\* black's other right: white's right on the a-side is the one left
C39_Witness ==
  /\ mode = "perft" /\ Len(frames) = 2
  /\ frames[1].before.castling = 15
  /\ frames[1].m.from = 7 /\ frames[1].m.to = 63
  /\ frames[2].before.castling = 10
  /\ abs_piece(frames[2].before.sq[frames[2].m.from]) = KING
  /\ board.castling = 2

\* ------------------------------------- scores in the transposition table
MATE == 30000

\* score_from_tt that does not undo the ply
score_from_ttNoUndo(s, ply) == s

\* score_from_tt(s, ply)
score_from_tt(s, ply) ==
  IF s > MATE - 1000 THEN s - ply
  ELSE IF s < -MATE + 1000 THEN s + ply
  ELSE s

\* score_to_tt(s, ply)
score_to_tt(s, ply) ==
  IF s > MATE - 1000 THEN s + ply
  ELSE IF s < -MATE + 1000 THEN s - ply
  ELSE s

\* the scores of the search around the points where the functions change:
\* 0, the two thresholds and the two mate scores
TtScores ==
  LET around(c) == {x \in (c - MaxBand)..(c + MaxBand) : x >= -MATE /\ x <= MATE}
  IN around(-MATE) \cup around(-MATE + 1000) \cup around(0)
     \cup around(MATE - 1000) \cup around(MATE)

\* the plies of the search: killers is indexed by them
TtPlies == 0..127

NoTtScore == [pc |-> "none", s |-> 0, ply |-> 0, stored |-> 0, read |-> 0]

TtInit ==
  /\ ttScore = NoTtScore
  /\ client = Null /\ node = Null /\ budget = Null /\ bookTable = Null /\ resolved = Null
  /\ ServiceOff /\ BoardOff /\ SearchOff

\* negamax, the end: e->score = score_to_tt(bestScore, ply)
TtStore(s, ply) ==
  /\ ttScore.pc = "none"
  /\ ttScore' = [NoTtScore EXCEPT !.pc = "stored", !.s = s, !.ply = ply,
                                  !.stored = score_to_tt(s, ply)]
  /\ UNCHANGED <<client, node, budget, bookTable, resolved, serviceVars, engineVars>>

\* negamax, the probe at the same ply: ttScore = score_from_tt(e->score, ply)
TtProbe ==
  /\ ttScore.pc = "stored"
  /\ ttScore' = [ttScore EXCEPT !.pc = "read", !.read = score_from_tt(ttScore.stored, ttScore.ply)]
  /\ UNCHANGED <<client, node, budget, bookTable, resolved, serviceVars, engineVars>>

TtNext ==
  \/ \E s \in TtScores, ply \in TtPlies : TtStore(s, ply)
  \/ TtProbe

TtSpec == TtInit /\ [][TtNext]_vars

\* C40: a score s with |s| <= MATE stored at a ply of 0..127 and read at the
\* same ply comes back as s, and a score with |s| <= MATE - 1000 is stored as
\* s itself
C40_TtScoreRoundTrip ==
  /\ ttScore.pc = "read" => ttScore.read = ttScore.s
  /\ ttScore.pc \in {"stored", "read"} /\ ttScore.s <= MATE - 1000 /\ ttScore.s >= -(MATE - 1000)
       => ttScore.stored = ttScore.s

\* a mate score stored at ply 127 as another number and read back as itself
C40_Witness ==
  /\ ttScore.pc = "read"
  /\ ttScore.s = -MATE + 5 /\ ttScore.ply = 127
  /\ ttScore.stored = -MATE + 5 - 127
  /\ ttScore.read = -MATE + 5

====
